---- MODULE Spec2Model ----
(***************************************************************************)
(* Credential lifecycle manager of quotio-cli: the credential store        *)
(* (credential_store.py) and the batch token refresh (token_manager.py).   *)
(*                                                                         *)
(* Strings that the code takes apart (identifiers, file names) are         *)
(* sequences of tokens: "user@example.com" is                              *)
(* <<"user","@","example",".","com">>, ".json" is <<".","json">>.          *)
(* Opaque strings (tokens, client ids, regions) are TLA+ strings or        *)
(* numbers.  Time is in whole seconds.                                     *)
(*                                                                         *)
(* Spec is the batch refresh over a store; LookupSpec calls the SSO-cache  *)
(* lookup, StalenessSpec the staleness check, each on inputs drawn by its  *)
(* initial predicate; StoreSpec calls save_auth_file and load_auth_file on *)
(* documents written and read as JSON text, CrashSpec follows a save write *)
(* by write.  The flows of auth_server.py: DeviceSpec is the device-code   *)
(* flow (registration, device authorization, poll loop), FlowsSpec runs    *)
(* such flows one after the other over one store, RedirectSpec is the      *)
(* redirect flow with its callback listener, ReuseSpec calls it again on   *)
(* the same instance, ManualSpec is the PKCE manual flow and the           *)
(* device-code flow it hands over to.                                      *)
(***************************************************************************)
EXTENDS Integers, Sequences, FiniteSets, TLC

\* ------------------------------------------------------------------ bounds

\* registration files (<hash>.json) an SSO cache drawn for the lookup holds
MaxRegistrations == 2
\* the latest instant (seconds) _should_refresh is called at on its own
MaxNow == 2
\* the largest poll interval (seconds) the device authorization answers with
MaxServerInterval == 1
\* batch runs of refresh_all_tokens in one behaviour
MaxRuns == 2
\* refresh requests that the endpoints answer with a grant in one behaviour
MaxGrants == 2
\* failures other than an unreachable endpoint (a response that is no grant,
\* a write to the store that raises) in one behaviour
MaxFaults == 1
\* requests the callback listener serves in one redirect flow
MaxRequests == 3
\* 300 s periods that lapse with no request in one redirect flow
MaxTimeouts == 2
\* calls of save_auth_file on its own in one behaviour
MaxSaves == 2
\* the largest number in a document drawn for the store
MaxNumber == 2
\* redirect-flow invocations on one AuthServer instance
MaxInvocations == 2
\* device-code flows run one after the other on one credential store
MaxFlows == 2

\* --------------------------------------------------------- program constants

REFRESH_BUFFER_SECONDS == 5 * 60
\* httpd.timeout = 300
ListenerTimeout == 300
DefaultExpiresIn == 3600
\* auth_data.get('interval', 5)
DefaultPollInterval == 5
\* for _ in range(60)
PollAttempts == 60
\* interval += 5
SlowDownStep == 5
KIRO_AWS_REGION == "us-east-1"
KIRO_AWS_START_URL == "https://view.awsapps.com/start"

\* ---------------------------------------------------------------- JSON values

\* a key that the document does not carry (dict.get gives None)
Absent == "<absent>"
\* a missing string that the code takes apart (email, _filename, _filepath)
NoName == <<>>

\* Python truthiness of a string-or-missing value
Truthy(v) == v # Absent /\ v # ""
\* Python truthiness of a name (token sequence)
TruthyName(n) == n # NoName
\* dict.get(key, default): the default only replaces a missing key
GetDefault(v, d) == IF v = Absent THEN d ELSE v

\* expires_at / last_refresh values: a missing key, an ISO-8601 string
\* denoting instant t written with a zone suffix, a string that is no
\* timestamp, or a JSON number
NoTime == [kind |-> "absent", t |-> 0, suffix |-> ""]
Iso(t, suffix) == [kind |-> "iso", t |-> t, suffix |-> suffix]
Malformed == [kind |-> "malformed", t |-> 0, suffix |-> ""]
Numeric(t) == [kind |-> "number", t |-> t, suffix |-> ""]

\* expires_at is the empty string
EmptyString == [kind |-> "empty", t |-> 0, suffix |-> ""]

\* datetime.isoformat() + "Z" of instant t
IsoformatZ(t) == Iso(t, "Z")

\* a document with no key at all
EmptyDoc ==
  [type |-> Absent, auth_method |-> Absent, provider |-> Absent,
   email |-> NoName, access_token |-> 0, refresh_token |-> 0,
   expires_at |-> NoTime, last_refresh |-> NoTime,
   client_id |-> Absent, client_secret |-> Absent,
   region |-> Absent, start_url |-> Absent, profileArn |-> Absent,
   _filename |-> NoName, _filepath |-> NoName]

\* -------------------------------------------------------------------- strings

\* str.replace(old, new) for a one-character old and new
ReplaceChar(s, old, new) ==
  [i \in 1..Len(s) |-> IF s[i] = old THEN new ELSE s[i]]

DotJson == <<".", "json">>

RECURSIVE RemoveDotJson(_)
\* str.replace('.json', ''): every occurrence of ".json" removed
RemoveDotJson(s) ==
  IF Len(s) = 0 THEN <<>>
  ELSE IF Len(s) >= 2 /\ SubSeq(s, 1, 2) = DotJson
       THEN RemoveDotJson(SubSeq(s, 3, Len(s)))
       ELSE <<Head(s)>> \o RemoveDotJson(Tail(s))

\* str.endswith('.json'), the store's glob("*.json")
EndsWithDotJson(s) == Len(s) >= 2 /\ SubSeq(s, Len(s) - 1, Len(s)) = DotJson

\* ----------------------------------------------------------------- JSON text

\* a JSON value: null, a boolean, a number, a string (its characters), an
\* array (items: its values) or an object (items: its members [k, v] in the
\* order of the dict)
JNull == [t |-> "null", b |-> FALSE, n |-> 0, s |-> <<>>, items |-> <<>>]
JBool(b) == [JNull EXCEPT !.t = "bool", !.b = b]
JNum(n) == [JNull EXCEPT !.t = "num", !.n = n]
JStr(s) == [JNull EXCEPT !.t = "str", !.s = s]
JArr(items) == [JNull EXCEPT !.t = "arr", !.items = items]
JObj(items) == [JNull EXCEPT !.t = "obj", !.items = items]
Member(k, v) == [k |-> k, v |-> v]

\* the text of the numbers drawn
NumText == [n \in -1..MaxNumber |-> IF n = -1 THEN "-1" ELSE ToString(n)]
NumOf(tok) == CHOOSE n \in DOMAIN NumText : NumText[n] = tok

\* json.dump of a string (ensure_ascii): quote and backslash are escaped, a
\* character outside ASCII is written as \uXXXX
EscapeChar(c) ==
  IF c = "\"" THEN <<"\\", "\"">>
  ELSE IF c = "\\" THEN <<"\\", "\\">>
  ELSE IF c = "é" THEN <<"\\u", "00e9">>
  ELSE <<c>>
RECURSIVE EscapeChars(_)
EscapeChars(s) ==
  IF s = <<>> THEN <<>> ELSE EscapeChar(Head(s)) \o EscapeChars(Tail(s))
DumpString(s) == <<"\"">> \o EscapeChars(s) \o <<"\"">>

\* json.dump(data, f, indent=2): the text as a sequence of tokens, "ws" the
\* line break and indentation the pretty printer puts in
RECURSIVE JsonDump(_)
RECURSIVE DumpItems(_, _)
DumpItems(items, object) ==
  LET one == IF object
               THEN DumpString(Head(items).k) \o <<":", "ws">> \o JsonDump(Head(items).v)
               ELSE JsonDump(Head(items))
  IN  IF Len(items) = 1 THEN one
      ELSE one \o <<",", "ws">> \o DumpItems(Tail(items), object)
JsonDump(v) ==
  CASE v.t = "null" -> <<"null">>
    [] v.t = "bool" -> <<IF v.b THEN "true" ELSE "false">>
    [] v.t = "num" -> <<NumText[v.n]>>
    [] v.t = "str" -> DumpString(v.s)
    [] v.t = "arr" -> IF v.items = <<>> THEN <<"[", "]">>
                      ELSE <<"[", "ws">> \o DumpItems(v.items, FALSE) \o <<"ws", "]">>
    [] v.t = "obj" -> IF v.items = <<>> THEN <<"{", "}">>
                      ELSE <<"{", "ws">> \o DumpItems(v.items, TRUE) \o <<"ws", "}">>

\* json.load: a parser of that text; every operator returns what it read and
\* the position after it
RECURSIVE SkipWs(_, _)
SkipWs(text, i) ==
  IF i <= Len(text) /\ text[i] = "ws" THEN SkipWs(text, i + 1) ELSE i

\* the characters of a string from position i (after the opening quote)
RECURSIVE ReadChars(_, _)
ReadChars(text, i) ==
  IF text[i] = "\"" THEN [s |-> <<>>, next |-> i + 1]
  ELSE IF text[i] = "\\u"
    THEN LET rest == ReadChars(text, i + 2)
         IN  [s |-> <<IF text[i + 1] = "00e9" THEN "é" ELSE "?">> \o rest.s,
              next |-> rest.next]
  ELSE IF text[i] = "\\"
    THEN LET rest == ReadChars(text, i + 2)
         IN  [s |-> <<text[i + 1]>> \o rest.s, next |-> rest.next]
  ELSE LET rest == ReadChars(text, i + 1)
       IN  [s |-> <<text[i]>> \o rest.s, next |-> rest.next]

RECURSIVE ReadValue(_, _)
RECURSIVE ReadItems(_, _, _)
\* the items of an array or the members of an object from position i, up to
\* and including the closing bracket
ReadItems(text, i, object) ==
  LET at == SkipWs(text, i)
      key == IF object THEN ReadChars(text, at + 1) ELSE [s |-> <<>>, next |-> at]
      colon == SkipWs(text, key.next)
      val == ReadValue(text, IF object THEN colon + 1 ELSE at)
      item == IF object THEN Member(key.s, val.v) ELSE val.v
      after == SkipWs(text, val.next)
  IN  IF text[after] = ","
        THEN LET rest == ReadItems(text, after + 1, object)
             IN  [items |-> <<item>> \o rest.items, next |-> rest.next]
        ELSE [items |-> <<item>>, next |-> after + 1]
ReadValue(text, i) ==
  LET at == SkipWs(text, i)
      tok == text[at]
  IN  CASE tok = "null" -> [v |-> JNull, next |-> at + 1]
        [] tok = "true" -> [v |-> JBool(TRUE), next |-> at + 1]
        [] tok = "false" -> [v |-> JBool(FALSE), next |-> at + 1]
        [] tok = "\"" -> LET r == ReadChars(text, at + 1)
                         IN  [v |-> JStr(r.s), next |-> r.next]
        [] tok \in {"[", "{"} ->
             LET close == SkipWs(text, at + 1)
             IN  IF text[close] \in {"]", "}"}
                   THEN [v |-> IF tok = "[" THEN JArr(<<>>) ELSE JObj(<<>>),
                         next |-> close + 1]
                   ELSE LET r == ReadItems(text, at + 1, tok = "{")
                        IN  [v |-> IF tok = "[" THEN JArr(r.items) ELSE JObj(r.items),
                             next |-> r.next]
        [] OTHER -> [v |-> JNum(NumOf(tok)), next |-> at + 1]
JsonLoad(text) == ReadValue(text, 1).v

\* ----------------------------------------------------------- credential store

\* CredentialStore.auth_dir; a path is the directory followed by the file name
AuthDir == <<"~/.cli-proxy-api/">>

\* save_auth_file / load_auth_file: identifier cleaned for use in a file name
SafeId(identifier) == ReplaceChar(ReplaceChar(identifier, "@", "_"), ".", "_")

\* save_auth_file / load_auth_file: f"{provider}-{safe_id}.json"
FileName(provider, identifier) == <<provider, "-">> \o SafeId(identifier) \o DotJson

\* save_auth_file: the directory after open(filepath, 'w') + json.dump(data)
SaveAuthFile(st, provider, identifier, data) ==
  LET fn == FileName(provider, identifier)
  IN  [n \in DOMAIN st \cup {fn} |-> IF n = fn THEN data ELSE st[n]]

\* load_auth_file: the document, or None (EmptyDoc stands for no result
\* together with found = FALSE)
LoadAuthFile(st, provider, identifier) ==
  LET fn == FileName(provider, identifier)
  IN  IF fn \in DOMAIN st THEN [found |-> TRUE, doc |-> st[fn]]
      ELSE [found |-> FALSE, doc |-> EmptyDoc]

\* list_auth_files: one listed document, tagged with where it was read from
Tagged(st, n) == [st[n] EXCEPT !._filename = n, !._filepath = AuthDir \o n]

\* list_auth_files(provider): the names of the files listed (glob *.json,
\* filtered on the document's type)
ListedNames(st, provider) ==
  {n \in DOMAIN st : EndsWithDotJson(n) /\ st[n].type = provider}

\* list_auth_files(provider): the tagged documents, by file name
ListAuthFiles(st, provider) ==
  [n \in ListedNames(st, provider) |-> Tagged(st, n)]

\* ------------------------------------------------------------ staleness check

\* datetime.fromisoformat after the trailing 'Z' was cut: "naive" for a
\* string with no offset, "aware" for one with an offset, "error" otherwise
ParseKind(e) ==
  IF e.kind # "iso" THEN "error"
  ELSE IF e.suffix \in {"", "Z"} THEN "naive"
  ELSE "aware"

\* ShouldRefresh with a missing expires_at taken as already expired
ShouldRefreshMissingExpired(token_data, utcnow) ==
  LET e == token_data.expires_at
      remaining == e.t - utcnow
  IN  IF e.kind \in {"absent", "empty"} \/ (e.kind = "number" /\ e.t = 0)
        THEN [due |-> TRUE, reason |-> "expired", secs |-> 0]
      ELSE IF e.kind = "number"
        THEN [due |-> FALSE, reason |-> "unparsable", secs |-> 0]
      ELSE IF ParseKind(e) # "naive"
        THEN [due |-> TRUE, reason |-> "parse_error", secs |-> 0]
      ELSE IF remaining <= 0
        THEN [due |-> TRUE, reason |-> "expired", secs |-> -remaining]
      ELSE IF remaining < REFRESH_BUFFER_SECONDS
        THEN [due |-> TRUE, reason |-> "expiring", secs |-> remaining]
      ELSE [due |-> FALSE, reason |-> "remaining", secs |-> remaining]

\* ShouldRefresh without the buffer: due only once expired
ShouldRefreshNoBuffer(token_data, utcnow) ==
  LET e == token_data.expires_at
      remaining == e.t - utcnow
  IN  IF e.kind \in {"absent", "empty"} \/ (e.kind = "number" /\ e.t = 0)
        THEN [due |-> FALSE, reason |-> "no_expiry", secs |-> 0]
      ELSE IF e.kind = "number"
        THEN [due |-> FALSE, reason |-> "unparsable", secs |-> 0]
      ELSE IF ParseKind(e) # "naive"
        THEN [due |-> TRUE, reason |-> "parse_error", secs |-> 0]
      ELSE IF remaining <= 0
        THEN [due |-> TRUE, reason |-> "expired", secs |-> -remaining]
      ELSE [due |-> FALSE, reason |-> "remaining", secs |-> remaining]

\* TokenManager._should_refresh(token_data) at instant now: (due, reason);
\* `not expires_at` holds for a missing key, an empty string and the number 0
ShouldRefresh(token_data, utcnow) ==
  LET e == token_data.expires_at
      remaining == e.t - utcnow
  IN  IF e.kind \in {"absent", "empty"} \/ (e.kind = "number" /\ e.t = 0)
        THEN [due |-> FALSE, reason |-> "no_expiry", secs |-> 0]
      ELSE IF e.kind = "number"
        THEN [due |-> FALSE, reason |-> "unparsable", secs |-> 0]
      ELSE IF ParseKind(e) # "naive"
        THEN [due |-> TRUE, reason |-> "parse_error", secs |-> 0]
      ELSE IF remaining <= 0
        THEN [due |-> TRUE, reason |-> "expired", secs |-> -remaining]
      ELSE IF remaining < REFRESH_BUFFER_SECONDS
        THEN [due |-> TRUE, reason |-> "expiring", secs |-> remaining]
      ELSE [due |-> FALSE, reason |-> "remaining", secs |-> remaining]

\* ------------------------------------------------------------------ SSO cache

\* the (client_id, client_secret) pair _load_kiro_device_registration returns
Registration(cid, sec) == [client_id |-> cid, client_secret |-> sec]
NoRegistration == Registration(Absent, Absent)

\* "kiro-auth-token.json", the current-token file of ~/.aws/sso/cache
KiroAuthTokenFile == <<"kiro-auth-token", ".", "json">>

\* a file of the cache: json |-> FALSE when json.load raises on it
CacheFile(hash, cid, sec) ==
  [json |-> TRUE, clientIdHash |-> hash, clientId |-> cid, clientSecret |-> sec]
CorruptCacheFile ==
  [json |-> FALSE, clientIdHash |-> Absent, clientId |-> Absent, clientSecret |-> Absent]

\* a cache file that yields a complete pair
CompletePair(c) == c.json /\ Truthy(c.clientId) /\ Truthy(c.clientSecret)

\* PointerRegistration with method 1 left out
PointerIgnored(cache) == NoRegistration

\* method 1: the pair the clientIdHash pointer leads to, if complete
PointerRegistration(cache) ==
  IF KiroAuthTokenFile \notin DOMAIN cache.files THEN NoRegistration
  ELSE LET data == cache.files[KiroAuthTokenFile]
           reg  == <<data.clientIdHash>> \o DotJson
       IN  IF data.json /\ Truthy(data.clientIdHash)
              /\ reg \in DOMAIN cache.files /\ CompletePair(cache.files[reg])
           THEN Registration(cache.files[reg].clientId, cache.files[reg].clientSecret)
           ELSE NoRegistration

\* method 2: the files the scan may return a pair from (os.listdir order is
\* arbitrary, the first complete one wins; none when os.listdir raises)
ScanCandidates(cache) ==
  {n \in DOMAIN cache.files :
     /\ cache.listable
     /\ EndsWithDotJson(n) /\ n # KiroAuthTokenFile /\ CompletePair(cache.files[n])}

\* _load_kiro_device_registration: the results it can return on this cache
LoadKiroDeviceRegistration(cache) ==
  IF ~cache.exists THEN {NoRegistration}
  ELSE IF PointerRegistration(cache) # NoRegistration
    THEN {PointerRegistration(cache)}
  ELSE IF ScanCandidates(cache) = {} THEN {NoRegistration}
  ELSE {Registration(cache.files[n].clientId, cache.files[n].clientSecret) :
          n \in ScanCandidates(cache)}

\* an exception is raised inside method 1's try block: json.load fails on
\* the pointer file or on the registration file it names
PointerReadFails(cache) ==
  /\ KiroAuthTokenFile \in DOMAIN cache.files
  /\ LET data == cache.files[KiroAuthTokenFile]
         reg  == <<data.clientIdHash>> \o DotJson
     IN  \/ ~data.json
         \/ Truthy(data.clientIdHash) /\ reg \in DOMAIN cache.files
              /\ ~cache.files[reg].json

\* try: ... except Exception: pass -- whether the exception leaves the block
ExceptPass(raised) == FALSE

\* _load_kiro_device_registration ends with an exception
LookupRaises(cache) ==
  cache.exists /\ (ExceptPass(PointerReadFails(cache)) \/ ExceptPass(~cache.listable))

\* ------------------------------------------------------------------- backfill

\* refresh_all_tokens / _load_and_complement_credentials:
\* f.get('email') or f.get('_filename', '').replace('.json', '')
IdentifierOf(token_data) ==
  IF TruthyName(token_data.email) THEN token_data.email
  ELSE RemoveDotJson(token_data._filename)

\* _load_and_complement_credentials: the method the dispatch uses
AuthMethodOf(token_data) == GetDefault(token_data.auth_method, "IdC")

\* NeedsBackfill without the auth_method guard
NeedsBackfillAnyMethod(token_data) ==
  ~(Truthy(token_data.client_id) /\ Truthy(token_data.client_secret))

\* _load_and_complement_credentials reads the SSO cache for this document
NeedsBackfill(token_data) ==
  /\ AuthMethodOf(token_data) = "IdC"
  /\ ~(Truthy(token_data.client_id) /\ Truthy(token_data.client_secret))

\* LoadAndComplementCredentials without the save of the merged document
ComplementWithoutSave(token_data, reg) ==
  IF ~NeedsBackfill(token_data)
    THEN [doc |-> token_data, lookup |-> FALSE, save |-> FALSE, identifier |-> NoName]
  ELSE IF Truthy(reg.client_id) /\ Truthy(reg.client_secret)
    THEN [doc |-> [token_data EXCEPT !.client_id = reg.client_id,
                                     !.client_secret = reg.client_secret],
          lookup |-> TRUE, save |-> FALSE, identifier |-> NoName]
  ELSE [doc |-> token_data, lookup |-> TRUE, save |-> FALSE, identifier |-> NoName]

\* _load_and_complement_credentials with reg the result of the cache lookup
\* (read only when NeedsBackfill): the document returned, and whether and
\* under which identifier it is saved
LoadAndComplementCredentials(token_data, reg) ==
  IF ~NeedsBackfill(token_data)
    THEN [doc |-> token_data, lookup |-> FALSE, save |-> FALSE, identifier |-> NoName]
  ELSE IF Truthy(reg.client_id) /\ Truthy(reg.client_secret)
    THEN LET d == [token_data EXCEPT !.client_id = reg.client_id,
                                     !.client_secret = reg.client_secret]
         IN  [doc |-> d, lookup |-> TRUE,
              save |-> TruthyName(IdentifierOf(d)), identifier |-> IdentifierOf(d)]
  ELSE [doc |-> token_data, lookup |-> TRUE, save |-> FALSE, identifier |-> NoName]

\* -------------------------------------------------------------------- refresh

\* KIRO_SOCIAL_REFRESH_URL
KiroSocialRefreshUrl == <<"prod.us-east-1.auth.desktop.kiro.dev", "/refreshToken">>

\* IdcEndpoint as it was before the fix noted at token_manager.py:177: the
\* region hardcoded
IdcEndpointHardcoded(region) == <<"oidc.", "us-east-1", ".amazonaws.com", "/token">>

\* _refresh_kiro_idc: f"https://oidc.{region}.amazonaws.com/token"
IdcEndpoint(region) == <<"oidc.", region, ".amazonaws.com", "/token">>

\* a refresh request: where it goes and what it carries
Request(url, rt, cid, sec) ==
  [sent |-> TRUE, url |-> url, refreshToken |-> rt, clientId |-> cid, clientSecret |-> sec]
NoRequest ==
  [sent |-> FALSE, url |-> <<>>, refreshToken |-> 0, clientId |-> Absent, clientSecret |-> Absent]

\* RefreshRequest without the test of refresh_token
RefreshRequestAnyToken(token_data) ==
  IF AuthMethodOf(token_data) = "Social"
    THEN Request(KiroSocialRefreshUrl, token_data.refresh_token, Absent, Absent)
  ELSE IF AuthMethodOf(token_data) = "IdC"
          /\ Truthy(token_data.client_id) /\ Truthy(token_data.client_secret)
    THEN Request(IdcEndpoint(GetDefault(token_data.region, "us-east-1")),
                 token_data.refresh_token, token_data.client_id,
                 token_data.client_secret)
  ELSE NoRequest

\* _refresh_token, up to the network call: the request it sends, if any
RefreshRequest(token_data) ==
  IF token_data.refresh_token = 0 THEN NoRequest
  ELSE IF AuthMethodOf(token_data) = "Social"
    THEN Request(KiroSocialRefreshUrl, token_data.refresh_token, Absent, Absent)
  ELSE IF AuthMethodOf(token_data) = "IdC"
          /\ Truthy(token_data.client_id) /\ Truthy(token_data.client_secret)
    THEN Request(IdcEndpoint(GetDefault(token_data.region, "us-east-1")),
                 token_data.refresh_token, token_data.client_id,
                 token_data.client_secret)
  ELSE NoRequest

\* what _refresh_kiro_social / _refresh_kiro_idc return: None (network error,
\* HTTP error status, unparsable body) or the parsed JSON object; a key the
\* object lacks is 0 (accessToken), hasRefreshToken = FALSE, -1 (expiresIn)
NoneResponse ==
  [none |-> TRUE, accessToken |-> 0, hasRefreshToken |-> FALSE,
   refreshToken |-> 0, expiresIn |-> -1]
Response(at, hasRt, rt, ein) ==
  [none |-> FALSE, accessToken |-> at, hasRefreshToken |-> hasRt,
   refreshToken |-> rt, expiresIn |-> ein]

\* Python truthiness of new_token_data: None and {} are falsy
TruthyResponse(r) ==
  ~r.none /\ (r.accessToken # 0 \/ r.hasRefreshToken \/ r.expiresIn # -1)

\* RefreshedDoc writing down the region the request was sent to
RefreshedDocRegionFilled(token_data, r, utcnow) ==
  [token_data EXCEPT
     !.access_token = r.accessToken,
     !.refresh_token = IF r.hasRefreshToken THEN r.refreshToken ELSE @,
     !.expires_at = IsoformatZ(utcnow +
                      (IF r.expiresIn = -1 THEN DefaultExpiresIn ELSE r.expiresIn)),
     !.last_refresh = IsoformatZ(utcnow),
     !.region = "us-east-1",
     !._filename = NoName,
     !._filepath = NoName]

\* _refresh_token after the network call: the document it builds
RefreshedDoc(token_data, r, utcnow) ==
  [token_data EXCEPT
     !.access_token = r.accessToken,
     !.refresh_token = IF r.hasRefreshToken THEN r.refreshToken ELSE @,
     !.expires_at = IsoformatZ(utcnow +
                      (IF r.expiresIn = -1 THEN DefaultExpiresIn ELSE r.expiresIn)),
     !.last_refresh = IsoformatZ(utcnow),
     !._filename = NoName,
     !._filepath = NoName]

\* RefreshStep with accessToken read by .get instead of [...]: a response
\* without it is applied
RefreshStepNoKeyError(r) == IF ~TruthyResponse(r) THEN "false" ELSE "save"

\* _refresh_token after the network call: "false" (nothing to apply), "raise"
\* (KeyError on accessToken) or "save" (the document is handed to the store)
RefreshStep(r) ==
  IF ~TruthyResponse(r) THEN "false"
  ELSE IF r.accessToken = 0 THEN "raise"
  ELSE "save"

\* CountAfter with the result of _refresh_token ignored: every attempt counted
CountEveryAttempt(count, refreshed) == count + 1

\* refresh_all_tokens: refreshed_count after one call of _refresh_token
CountAfter(count, refreshed) == IF refreshed THEN count + 1 ELSE count

\* ---------------------------------------------------------------------- state

VARIABLES
  store,            \* ~/.cli-proxy-api: file name -> JSON document
  ssoCache,         \* ~/.aws/sso/cache: whether it exists, file name -> content
  clock,            \* datetime.utcnow(), in seconds
  ticked,           \* the clock has advanced since the last run
  grants,           \* refresh requests the endpoints answered with a grant
  faults,           \* odd responses and failed writes so far
  runs,             \* completed or aborted runs of refresh_all_tokens
  pc,               \* where refresh_all_tokens stands
  files,            \* its list of tagged documents, by the file each came from
  pending,          \* the files the loop has not reached yet
  cur,              \* the file of the document the loop is at
  f,                \* the loop's document (token_data)
  refreshed_count,  \* its counter
  ret,              \* how the last run ended
  hist,             \* what the current (or last) run did, per listed file
  prevFound,        \* files whose backfill was persisted in the run before
  store0,           \* the store at start
  verbose,          \* the verbose argument of the current (or last) run
  lookup,           \* the last call of _load_kiro_device_registration on its own
  verdict,          \* the last call of _should_refresh on its own
  poll,             \* the device-code flow (start_kiro_aws_auth, _aws_poll_token)
  listener,         \* the redirect flow and its callback listener
  manual,           \* the PKCE manual flow (start_kiro_manual_auth)
  calls             \* save_auth_file and load_auth_file called on their own

\* the state of refresh_all_tokens and of what it works on
batchVars == <<store, ssoCache, clock, ticked, grants, faults, runs, pc, files, pending,
               cur, f, refreshed_count, ret, hist, prevFound, store0, verbose>>

\* the state of the functions called on their own
aux == <<lookup, verdict, poll, listener, manual, calls>>

vars == <<batchVars, aux>>

\* one step of a run, as recorded in hist: what happened, the file written
\* (key), the endpoint addressed (url) and the document sent from (a request)
\* or written (a save); EmptyDoc for the other steps
Ev(ev, key, url, doc) == [ev |-> ev, key |-> key, url |-> url, doc |-> doc]

\* a line printed for the operator, as recorded in hist: "msg_complemented"
\* (token_manager.py:234), "msg_reason" (:49, the staleness verdict, verbose
\* runs only), "msg_refresh_error" (:168, :207, :210), "msg_refreshed" (:56),
\* "msg_exception" (:58)
Msg(kind) == Ev(kind, NoName, <<>>, EmptyDoc)

\* the events of kind ev recorded for file n
EventsOf(n, ev) == {i \in 1..Len(hist[n]) : hist[n][i].ev = ev}

\* seconds one advance of the clock adds
TickSeconds == 2 * REFRESH_BUFFER_SECONDS

\* ------------------------------------------------------------- initial states

UserEmail == <<"user", "@", "example", ".", "com">>
EntEmail == <<"ent", "@", "corp", ".", "com">>
BuilderId == <<"aws-builder-id">>

Past == Iso(-60, "Z")
Fresh == Iso(1800, "Z")

\* AuthServer._save_kiro_token: the document of the PKCE manual flow
SocialDoc(exp, rt) ==
  [EmptyDoc EXCEPT !.type = "kiro", !.auth_method = "Social", !.access_token = 1,
                   !.refresh_token = rt, !.expires_at = exp, !.email = UserEmail]

\* AuthServer._save_kiro_aws_token: the document of the device-code flow
DeviceDoc(exp, rt, region) ==
  [EmptyDoc EXCEPT !.type = "kiro", !.auth_method = "IdC", !.access_token = 2,
                   !.refresh_token = rt, !.expires_at = exp,
                   !.client_id = "cid-dev", !.client_secret = "sec-dev",
                   !.start_url = "https://view.awsapps.com/start",
                   !.region = region]

\* an identity-center document written by another tool: it may lack the
\* client registration, the region or the email
ImportedDoc(email, exp, cid, sec, region) ==
  [EmptyDoc EXCEPT !.type = "kiro", !.auth_method = "IdC", !.access_token = 3,
                   !.refresh_token = 3, !.expires_at = exp, !.email = email,
                   !.client_id = cid, !.client_secret = sec, !.region = region]

\* AuthServer._save_google_token: a document of another provider
GoogleDoc ==
  [EmptyDoc EXCEPT !.type = "antigravity", !.auth_method = "Social",
                   !.provider = "Google", !.access_token = 4,
                   !.refresh_token = 4, !.expires_at = Past, !.email = UserEmail]

SocialFile == FileName("kiro", UserEmail)
DeviceFile == FileName("kiro", BuilderId)
EntFile == FileName("kiro", EntEmail)
GoogleFile == FileName("antigravity", UserEmail)

\* the store holding the documents of the other provider and those given
StoreOf(names, docOf) ==
  [n \in names \cup {GoogleFile} |-> IF n = GoogleFile THEN GoogleDoc ELSE docOf[n]]

\* a device-flow document due next to a fresh and a non-refreshable one
StoreDueFreshNone ==
  StoreOf({SocialFile, DeviceFile, EntFile},
          [n \in {SocialFile, DeviceFile, EntFile} |->
             IF n = SocialFile THEN SocialDoc(Past, 0)
             ELSE IF n = DeviceFile THEN DeviceDoc(Past, 2, "ap-southeast-1")
             ELSE ImportedDoc(EntEmail, Fresh, "cid-ent", "sec-ent", "us-east-1")])

\* two identity-center documents of different regions, both due
StoreTwoRegions ==
  StoreOf({DeviceFile, EntFile},
          [n \in {DeviceFile, EntFile} |->
             IF n = DeviceFile THEN DeviceDoc(Past, 2, "ap-southeast-1")
             ELSE ImportedDoc(EntEmail, Past, "cid-ent", "sec-ent", "us-east-1")])

\* an identity-center document without client registration and without
\* email, stored under the device flow's file name
StoreImportedNoEmail ==
  StoreOf({DeviceFile},
          [n \in {DeviceFile} |->
             ImportedDoc(NoName, Past, Absent, Absent, "us-east-1")])

\* an identity-center document without client registration, with an email,
\* next to a fresh social one
StoreImportedEmail ==
  StoreOf({SocialFile, EntFile},
          [n \in {SocialFile, EntFile} |->
             IF n = SocialFile THEN SocialDoc(Fresh, 1)
             ELSE ImportedDoc(EntEmail, Past, Absent, Absent, "eu-west-1")])

\* an identity-center document without region next to a due social one
StoreNoRegion ==
  StoreOf({SocialFile, EntFile},
          [n \in {SocialFile, EntFile} |->
             IF n = SocialFile THEN SocialDoc(Past, 1)
             ELSE ImportedDoc(EntEmail, Past, "cid-imp", "sec-imp", Absent)])

\* a social document without expires_at next to an expired device-flow
\* document without refresh_token
StoreNoExpiryNoToken ==
  StoreOf({SocialFile, DeviceFile},
          [n \in {SocialFile, DeviceFile} |->
             IF n = SocialFile THEN SocialDoc(NoTime, 1)
             ELSE DeviceDoc(Past, 0, "us-east-1")])

HashFile(h) == <<h>> \o DotJson

\* ~/.aws/sso/cache does not exist
CacheAbsent == [exists |-> FALSE, listable |-> FALSE, files |-> <<>>]

\* a pointer that leads to a complete registration, next to another one
CachePointer ==
  [exists |-> TRUE, listable |-> TRUE,
   files |-> [n \in {KiroAuthTokenFile, HashFile("h1"), HashFile("h2")} |->
                IF n = KiroAuthTokenFile THEN CacheFile("h1", Absent, Absent)
                ELSE IF n = HashFile("h1") THEN CacheFile(Absent, "cid-A", "sec-A")
                ELSE CacheFile(Absent, "cid-B", "sec-B")]]

\* no pointer: a complete registration and an unreadable file
CacheScanOnly ==
  [exists |-> TRUE, listable |-> TRUE,
   files |-> [n \in {HashFile("h2"), HashFile("h3")} |->
                IF n = HashFile("h2") THEN CacheFile(Absent, "cid-B", "sec-B")
                ELSE CorruptCacheFile]]

\* a stale pointer and an incomplete registration
CacheIncomplete ==
  [exists |-> TRUE, listable |-> TRUE,
   files |-> [n \in {KiroAuthTokenFile, HashFile("h3")} |->
                IF n = KiroAuthTokenFile THEN CacheFile("h9", Absent, Absent)
                ELSE CacheFile(Absent, "cid-C", Absent)]]

\* the stores and SSO caches a behaviour may start from
Scenarios ==
  {<<StoreDueFreshNone, CachePointer>>,
   <<StoreTwoRegions, CachePointer>>,
   <<StoreNoRegion, CacheAbsent>>,
   <<StoreImportedNoEmail, CachePointer>>,
   <<StoreImportedNoEmail, CacheIncomplete>>,
   <<StoreImportedEmail, CacheScanOnly>>,
   <<StoreImportedEmail, CacheAbsent>>,
   <<StoreNoExpiryNoToken, CacheAbsent>>}

NoRet == [kind |-> "none", count |-> 0]

\* no call of _load_kiro_device_registration yet
NoLookup == [done |-> FALSE, reg |-> NoRegistration, raised |-> FALSE]

\* no run of refresh_all_tokens yet
BatchAtRest ==
  /\ clock = 0
  /\ ticked = TRUE
  /\ grants = 0
  /\ faults = 0
  /\ runs = 0
  /\ pc = "idle"
  /\ files = <<>>
  /\ pending = {}
  /\ cur = NoName
  /\ f = EmptyDoc
  /\ refreshed_count = 0
  /\ ret = NoRet
  /\ hist = <<>>
  /\ prevFound = {}
  /\ verbose = FALSE

\* no call of _should_refresh yet
NoVerdict == [done |-> FALSE, due |-> FALSE, reason |-> "", secs |-> 0]

\* no flow started on the AuthServer: the poll loop not entered, no request
\* sent, the class attributes for start URL and region; flows: the flows run
\* before this one, completed: the configurations of those that persisted a
\* credential
NoPoll ==
  [pc |-> "idle", attempt |-> 0, interval |-> 0, interval0 |-> 0, lastWait |-> 0,
   requests |-> 0, pendings |-> 0, slowdowns |-> 0, persisted |-> 0,
   last |-> "none", saveRaised |-> FALSE, outcome |-> "none",
   cfg |-> [start_url |-> KIRO_AWS_START_URL, region |-> KIRO_AWS_REGION],
   registrations |-> 0, authorizations |-> 0,
   regRequest |-> [url |-> <<>>, clientId |-> Absent, clientSecret |-> Absent,
                   startUrl |-> Absent, scopes |-> {}],
   authRequest |-> [url |-> <<>>, clientId |-> Absent, clientSecret |-> Absent,
                    startUrl |-> Absent, scopes |-> {}],
   tokenRequest |-> [url |-> <<>>, clientId |-> Absent, clientSecret |-> Absent,
                     startUrl |-> Absent, scopes |-> {}],
   reg |-> NoRegistration, device_code |-> Absent, offered |-> 0,
   listings |-> 0, warning |-> "none", info |-> FALSE,
   flows |-> 0, completed |-> {}]

\* _run_callback_server not called: no socket, _auth_event and _auth_result
\* as the constructor leaves them
NoUserInfo == [kind |-> "none", email |-> <<>>]
NoResult ==
  [kind |-> "none", error |-> "", provider |-> "<absent>",
   token_data |-> NoneResponse, user_info |-> NoUserInfo]
NoListener ==
  [pc |-> "idle", provider |-> "<absent>", socket |-> "none", event |-> FALSE,
   result |-> NoResult,
   served |-> 0, timeouts |-> 0, waited |-> 0, last |-> "none", status |-> 0,
   exchanges |-> 0, userinfos |-> 0, persisted |-> 0, key |-> <<>>,
   reported |-> "none", outcome |-> "none",
   state |-> "<absent>", reqState |-> "<absent>", invocation |-> 0, resultAt |-> 0]

\* start_kiro_manual_auth not called
NoPasted ==
  [kind |-> "none", login_option |-> "<absent>", issuer_url |-> "<absent>",
   idc_region |-> "<absent>", code |-> 0, error |-> "<absent>"]
NoManual ==
  [pc |-> "idle", pasted |-> NoPasted,
   cfg0 |-> [start_url |-> KIRO_AWS_START_URL, region |-> KIRO_AWS_REGION],
   exchanges |-> 0, token |-> 0, id_token |-> "none", identifier |-> <<>>,
   persisted |-> 0, saveRaised |-> FALSE, outcome |-> "none"]

\* neither save_auth_file nor load_auth_file called on its own: no call, no
\* pair saved to (saved: pair -> the document of the last save that returned);
\* written: the tokens a save under way has put in its file, stopped: the
\* process ended during a save
NoCalls ==
  [op |-> "none", provider |-> "", identifier |-> <<>>, doc |-> JNull,
   raised |-> FALSE, found |-> FALSE, result |-> JNull, saves |-> 0, saved |-> <<>>,
   written |-> 0, stopped |-> FALSE]

\* no function called on its own, no flow started
AuxAtRest ==
  /\ lookup = NoLookup /\ verdict = NoVerdict /\ poll = NoPoll
  /\ listener = NoListener /\ manual = NoManual /\ calls = NoCalls

Init ==
  /\ \E sc \in Scenarios : store = sc[1] /\ ssoCache = sc[2]
  /\ store0 = store
  /\ BatchAtRest
  /\ AuxAtRest

\* -------------------------------------------------------------------- actions

\* a response that carries accessToken
IsGrant(r) == ~r.none /\ r.accessToken # 0

\* what the refresh endpoint may answer when its next grant is the n-th:
\* nothing usable (None), an empty object, an object without accessToken, a
\* grant with a new refresh token, a grant without one (and without
\* expiresIn), a grant whose refreshToken is null or ""
Responses(n) ==
  {NoneResponse,
   Response(0, FALSE, 0, -1),
   Response(0, TRUE, 10 + n, -1),
   Response(10 + n, TRUE, 10 + n, DefaultExpiresIn),
   Response(10 + n, FALSE, 0, -1),
   Response(10 + n, TRUE, 0, DefaultExpiresIn)}

\* hist with the events es appended for file n
Record(n, es) == [hist EXCEPT ![n] = @ \o es]

\* the loop has finished with the current document
NextDocument ==
  /\ pending' = pending \ {cur}
  /\ pc' = "loop"

\* refresh_all_tokens(verbose), entry: list the kiro documents, reset the
\* counter
StartBatch(v) ==
  /\ pc = "idle"
  /\ runs < MaxRuns
  /\ ticked
  /\ ticked' = FALSE
  /\ verbose' = v
  /\ files' = ListAuthFiles(store, "kiro")
  /\ pending' = DOMAIN files'
  /\ hist' = [n \in DOMAIN files' |-> <<>>]
  /\ prevFound' = {n \in DOMAIN hist : EventsOf(n, "backfill_save") # {}}
  /\ refreshed_count' = 0
  /\ ret' = NoRet
  /\ cur' = NoName
  /\ f' = EmptyDoc
  /\ pc' = "loop"
  /\ UNCHANGED <<store, ssoCache, clock, grants, faults, runs, store0>>
  /\ UNCHANGED aux

\* refresh_all_tokens, loop head: the next listed document (glob order is
\* arbitrary) goes through _load_and_complement_credentials, with reg the
\* result of its SSO-cache lookup and io whether its write to the store
\* succeeds or open() raises; the exception leaves refresh_all_tokens
Complement(n, reg, io) ==
  /\ pc = "loop"
  /\ n \in pending
  /\ reg \in (IF NeedsBackfill(files[n])
              THEN LoadKiroDeviceRegistration(ssoCache) ELSE {NoRegistration})
  /\ cur' = n
  /\ LET c == LoadAndComplementCredentials(files[n], reg)
         key == FileName("kiro", c.identifier)
         looked == (IF c.lookup THEN <<Ev("lookup", NoName, <<>>, EmptyDoc)>> ELSE <<>>)
                   \o (IF c.lookup /\ Truthy(reg.client_id) /\ Truthy(reg.client_secret)
                       THEN <<Msg("msg_complemented")>> ELSE <<>>)
     IN  /\ f' = c.doc
         /\ CASE ~c.save ->
                   /\ io
                   /\ hist' = Record(n, looked)
                   /\ pc' = "complemented"
                   /\ UNCHANGED <<store, ret, runs, faults>>
              [] c.save /\ io ->
                   /\ store' = SaveAuthFile(store, "kiro", c.identifier, c.doc)
                   /\ hist' = Record(n, looked \o
                                 <<Ev("backfill_save", key, <<>>, c.doc)>>)
                   /\ pc' = "complemented"
                   /\ UNCHANGED <<ret, runs, faults>>
              [] c.save /\ ~io ->
                   /\ faults < MaxFaults
                   /\ faults' = faults + 1
                   /\ hist' = Record(n, looked \o
                                 <<Ev("backfill_raise", key, <<>>, EmptyDoc)>>)
                   /\ ret' = [kind |-> "raised", count |-> 0]
                   /\ runs' = runs + 1
                   /\ pc' = "idle"
                   /\ UNCHANGED store
  /\ UNCHANGED <<ssoCache, clock, ticked, grants, files, pending,
                 refreshed_count, prevFound, store0, verbose>>
  /\ UNCHANGED aux

\* refresh_all_tokens: _should_refresh on the loop's document; a verbose
\* run prints the verdict
Evaluate ==
  /\ pc = "complemented"
  /\ LET v == ShouldRefresh(f, clock)
         said == IF verbose THEN <<Msg("msg_reason")>> ELSE <<>>
     IN  IF v.due
         THEN /\ hist' = Record(cur, <<Ev("due", NoName, <<>>, EmptyDoc)>> \o said)
              /\ pc' = "due"
              /\ UNCHANGED pending
         ELSE /\ hist' = Record(cur, <<Ev("not_due", NoName, <<>>, EmptyDoc)>> \o said)
              /\ NextDocument
  /\ UNCHANGED <<store, ssoCache, clock, ticked, grants, faults,
                 runs, files, cur, f, refreshed_count, ret, prevFound, store0, verbose>>
  /\ UNCHANGED aux

\* refresh_all_tokens: _refresh_token on a due document that sends no request
RefreshSkipped ==
  /\ pc = "due"
  /\ ~RefreshRequest(f).sent
  /\ hist' = Record(cur, <<Ev("refresh_false", NoName, <<>>, EmptyDoc)>>)
  /\ refreshed_count' = CountAfter(refreshed_count, FALSE)
  /\ NextDocument
  /\ UNCHANGED <<store, ssoCache, clock, ticked, grants, faults,
                 runs, files, cur, f, ret, prevFound, store0, verbose>>
  /\ UNCHANGED aux

\* refresh_all_tokens: _refresh_token on a due document, with the request,
\* the endpoint's answer r and (io) whether the write to the store succeeds
\* or open() raises; every exception ends in the loop's except clause
Refresh(r, io) ==
  /\ pc = "due"
  /\ RefreshRequest(f).sent
  /\ r \in Responses(grants + 1)
  /\ IsGrant(r) => grants < MaxGrants
  /\ grants' = IF IsGrant(r) THEN grants + 1 ELSE grants
  /\ faults' = IF r = NoneResponse \/ (IsGrant(r) /\ io) THEN faults ELSE faults + 1
  /\ faults' <= MaxFaults
  /\ LET req == RefreshRequest(f)
         sent == <<Ev("request", NoName, req.url, f)>>
                   \o (IF r.none THEN <<Msg("msg_refresh_error")>> ELSE <<>>)
         identifier == IdentifierOf(f)
         doc == RefreshedDoc(f, r, clock)
         key == FileName("kiro", identifier)
     IN  CASE RefreshStep(r) = "false" ->
                /\ io
                /\ hist' = Record(cur, sent \o <<Ev("refresh_false", NoName, req.url, EmptyDoc)>>)
                /\ refreshed_count' = CountAfter(refreshed_count, FALSE)
                /\ UNCHANGED store
           [] RefreshStep(r) = "raise" ->
                /\ io
                /\ hist' = Record(cur, sent \o <<Ev("refresh_raise", NoName, req.url, EmptyDoc),
                                             Msg("msg_exception")>>)
                /\ refreshed_count' = CountAfter(refreshed_count, FALSE)
                /\ UNCHANGED store
           [] RefreshStep(r) = "save" /\ io ->
                /\ store' = SaveAuthFile(store, "kiro", identifier, doc)
                /\ hist' = Record(cur, sent \o <<Ev("refresh_save", key, req.url, doc),
                                             Msg("msg_refreshed")>>)
                /\ refreshed_count' = CountAfter(refreshed_count, TRUE)
           [] RefreshStep(r) = "save" /\ ~io ->
                /\ hist' = Record(cur, sent \o <<Ev("refresh_raise", key, req.url, EmptyDoc),
                                             Msg("msg_exception")>>)
                /\ refreshed_count' = CountAfter(refreshed_count, FALSE)
                /\ UNCHANGED store
  /\ NextDocument
  /\ UNCHANGED <<ssoCache, clock, ticked, runs, files, cur, f, ret, prevFound,
                 store0, verbose>>
  /\ UNCHANGED aux

\* refresh_all_tokens: the loop is over, the count is returned
FinishBatch ==
  /\ pc = "loop"
  /\ pending = {}
  /\ ret' = [kind |-> "count", count |-> refreshed_count]
  /\ runs' = runs + 1
  /\ pc' = "idle"
  /\ UNCHANGED <<store, ssoCache, clock, ticked, grants, faults,
                 files, pending, cur, f, refreshed_count, hist, prevFound,
                 store0, verbose>>
  /\ UNCHANGED aux

\* time passes between two runs
Tick ==
  /\ pc = "idle"
  /\ ~ticked
  /\ runs < MaxRuns
  /\ clock' = clock + TickSeconds
  /\ ticked' = TRUE
  /\ UNCHANGED <<store, ssoCache, grants, faults, runs, pc, files,
                 pending, cur, f, refreshed_count, ret, hist, prevFound,
                 store0, verbose>>
  /\ UNCHANGED aux

Next ==
  \/ \E v \in BOOLEAN : StartBatch(v)
  \/ \E n \in pending, io \in BOOLEAN :
       \E reg \in LoadKiroDeviceRegistration(ssoCache) \cup {NoRegistration} :
         Complement(n, reg, io)
  \/ Evaluate
  \/ RefreshSkipped
  \/ \E r \in Responses(grants + 1), io \in BOOLEAN : Refresh(r, io)
  \/ FinishBatch
  \/ Tick

Spec == Init /\ [][Next]_vars

\* ------------------------------------------ the SSO-cache lookup on its own

HashNames == <<"h1", "h2", "h3", "h4">>
ClientIds == <<"cid-A", "cid-B", "cid-C", "cid-D">>
ClientSecrets == <<"sec-A", "sec-B", "sec-C", "sec-D">>

\* a file the cache does not hold
NoFile ==
  [json |-> FALSE, clientIdHash |-> "<no file>", clientId |-> Absent, clientSecret |-> Absent]

\* what kiro-auth-token.json may be: missing, unreadable, or with a
\* clientIdHash that is missing, empty, stale or the name of a registration
PointerContents ==
  {NoFile, CorruptCacheFile}
    \cup {CacheFile(h, Absent, Absent) :
            h \in {Absent, "", "h9"} \cup {HashNames[i] : i \in 1..MaxRegistrations}}

\* what the i-th registration file may be: missing, unreadable, complete,
\* without clientSecret, with an empty clientId
RegistrationContents(i) ==
  {NoFile, CorruptCacheFile,
   CacheFile(Absent, ClientIds[i], ClientSecrets[i]),
   CacheFile(Absent, ClientIds[i], Absent),
   CacheFile(Absent, "", ClientSecrets[i])}

\* a file of the cache that the scan's endswith('.json') test skips
TextFile == <<"registration", ".", "txt">>

\* the cache directory with the given contents
CacheOf(ptr, regs, txt, listable) ==
  LET content(n) == IF n = KiroAuthTokenFile THEN ptr
                    ELSE IF n = TextFile THEN txt
                    ELSE regs[CHOOSE i \in 1..MaxRegistrations : n = HashFile(HashNames[i])]
      names == {KiroAuthTokenFile, TextFile}
                 \cup {HashFile(HashNames[i]) : i \in 1..MaxRegistrations}
  IN  [exists |-> TRUE, listable |-> listable,
       files |-> [n \in {m \in names : content(m) # NoFile} |-> content(n)]]

\* the caches the lookup is called on
Caches ==
  {CacheAbsent}
    \cup {CacheOf(ptr, regs, txt, listable) :
            ptr \in PointerContents,
            regs \in {r \in [1..MaxRegistrations -> UNION {RegistrationContents(i) :
                                                             i \in 1..MaxRegistrations}] :
                        \A i \in 1..MaxRegistrations : r[i] \in RegistrationContents(i)},
            txt \in {NoFile, CacheFile(Absent, "cid-T", "sec-T")},
            listable \in BOOLEAN}

LookupInit ==
  /\ ssoCache \in Caches
  /\ store = <<>>
  /\ store0 = store
  /\ BatchAtRest
  /\ AuxAtRest

\* one call of _load_kiro_device_registration()
LoadRegistration(reg) ==
  /\ ~lookup.done
  /\ reg \in LoadKiroDeviceRegistration(ssoCache)
  /\ lookup' = [done |-> TRUE, reg |-> reg, raised |-> LookupRaises(ssoCache)]
  /\ UNCHANGED <<batchVars, verdict, poll, listener, manual, calls>>

LookupNext == \E reg \in LoadKiroDeviceRegistration(ssoCache) : LoadRegistration(reg)

LookupSpec == LookupInit /\ [][LookupNext]_vars

\* ------------------------------------------- the staleness check on its own

\* how an ISO-8601 string may end: no zone, 'Z', a zero offset
ZoneSuffixes == {"", "Z", "+00:00"}

\* the instants expires_at may denote: around one hour ago, now, the end of
\* the buffer and one hour ahead
ExpiryInstants ==
  {d + k : d \in {-DefaultExpiresIn, 0, REFRESH_BUFFER_SECONDS, DefaultExpiresIn},
           k \in -1..(MaxNow + 1)}

\* the values of expires_at _should_refresh is called on
ExpiryValues ==
  {NoTime, EmptyString, Malformed}
    \cup {Numeric(t) : t \in {0, DefaultExpiresIn}}
    \cup {Iso(t, z) : t \in ExpiryInstants, z \in ZoneSuffixes}

StalenessInit ==
  /\ \E e \in ExpiryValues : f = SocialDoc(e, 1)
  /\ clock \in 0..MaxNow
  /\ ticked = TRUE
  /\ grants = 0
  /\ faults = 0
  /\ runs = 0
  /\ pc = "idle"
  /\ files = <<>>
  /\ pending = {}
  /\ cur = NoName
  /\ refreshed_count = 0
  /\ ret = NoRet
  /\ hist = <<>>
  /\ prevFound = {}
  /\ verbose = FALSE
  /\ store = <<>>
  /\ store0 = store
  /\ ssoCache = CacheAbsent
  /\ AuxAtRest

\* one call of _should_refresh(f) at instant clock
CheckStaleness ==
  /\ ~verdict.done
  /\ LET v == ShouldRefresh(f, clock)
     IN  verdict' = [done |-> TRUE, due |-> v.due, reason |-> v.reason, secs |-> v.secs]
  /\ UNCHANGED <<batchVars, lookup, poll, listener, manual, calls>>

StalenessNext == CheckStaleness

StalenessSpec == StalenessInit /\ [][StalenessNext]_vars

\* ------------------------------------------------- the device-code poll loop

\* for _ in range(60): another iteration starts after `attempt` iterations
LoopContinuesOneLess(attempt) == attempt < PollAttempts - 1

\* for _ in range(60): another iteration starts after `attempt` iterations
LoopContinues(attempt) == attempt < PollAttempts

\* how _aws_poll_token reads the body of an HTTP error (a body is the set of
\* words it contains): 'authorization_pending' is looked for first
ErrorKind(body) ==
  IF "authorization_pending" \in body THEN "authorization_pending"
  ELSE IF "slow_down" \in body THEN "slow_down"
  ELSE "other"

\* NextInterval with slow_down ignored
NextIntervalUnchanged(interval, kind) == interval

\* the interval after an HTTP error of the given kind
NextInterval(interval, kind) ==
  IF kind = "slow_down" THEN interval + SlowDownStep ELSE interval

\* what the token endpoint may answer to the n-th request: a token (HTTP
\* 200), a 200 body without accessToken, an HTTP error with a body, no
\* answer at all (URLError)
Answer(kind, body, token) == [kind |-> kind, body |-> body, token |-> token]
TokenAnswers(n) ==
  {Answer("ok", {}, Response(20 + n, TRUE, 20 + n, DefaultExpiresIn)),
   Answer("ok", {}, Response(0, FALSE, 0, -1)),
   Answer("http_error", {"authorization_pending"}, NoneResponse),
   Answer("http_error", {"slow_down"}, NoneResponse),
   Answer("http_error", {"access_denied"}, NoneResponse),
   Answer("network", {}, NoneResponse)}

\* AuthServer.__init__: the start URL and the region of the instance, the
\* class attributes unless the caller passed its own (an enterprise IAM
\* Identity Center)
EnterpriseStartUrl == "https://corp.awsapps.com/start"
EnterpriseRegion == "eu-west-1"
AwsConfig(start_url, region) == [start_url |-> start_url, region |-> region]
AwsConfigs ==
  {AwsConfig(KIRO_AWS_START_URL, KIRO_AWS_REGION),
   AwsConfig(EnterpriseStartUrl, EnterpriseRegion)}

\* f"https://oidc.{self.KIRO_AWS_REGION}.amazonaws.com{path}"
OidcUrl(region, path) == <<"oidc.", region, ".amazonaws.com", path>>

\* "view.awsapps.com" in self.KIRO_AWS_START_URL
IsBuilderId(start_url) == start_url \in {"https://view.awsapps.com/start"}

\* the scopes _aws_register_client_device asks for
Scopes(start_url) ==
  {"codewhisperer:completions", "codewhisperer:analysis"}
    \cup (IF IsBuilderId(start_url) THEN {} ELSE {"sso:account:access"})

\* a request of the device-code flow: where it goes and what it carries
AwsRequest(url, cid, sec, start, scopes) ==
  [url |-> url, clientId |-> cid, clientSecret |-> sec, startUrl |-> start,
   scopes |-> scopes]

\* what the registration endpoint may answer: a JSON object with or without
\* clientId, an empty object, a clientId that is not a string, an HTTP error,
\* no answer at all
RegistrationAnswer(kind, cid, sec) == [kind |-> kind, clientId |-> cid, clientSecret |-> sec]
RegistrationAnswers ==
  {RegistrationAnswer("ok", "cid-1", "sec-1"),
   RegistrationAnswer("ok", "cid-2", "sec-2"),
   RegistrationAnswer("ok", Absent, "sec-1"),
   RegistrationAnswer("empty", Absent, Absent),
   RegistrationAnswer("id_not_text", Absent, "sec-1"),
   RegistrationAnswer("http_error", Absent, Absent),
   RegistrationAnswer("network", Absent, Absent)}

\* the value a step hands back: None, or a JSON object (empty or not)
NoData == [none |-> TRUE, empty |-> TRUE]
Data(empty) == [none |-> FALSE, empty |-> empty]

\* _aws_register_client_device: the parsed answer, None after any exception
\* (the [:30] of a clientId that is not a string raises inside the try)
AwsRegisterClientDevice(ans) ==
  IF ans.kind = "ok" THEN Data(FALSE)
  ELSE IF ans.kind = "empty" THEN Data(TRUE)
  ELSE NoData

\* `not reg_data` / `not auth_data`
Falsy(d) == d.none \/ d.empty

\* what the device-authorization endpoint may answer; interval -1: no
\* interval in the answer
DeviceAuthAnswer(kind, dc, uc, uri, interval) ==
  [kind |-> kind, deviceCode |-> dc, userCode |-> uc,
   verificationUriComplete |-> uri, interval |-> interval]
DeviceAuthAnswers ==
  {DeviceAuthAnswer("ok", "dc-1", "uc-1", "uri-1", i) : i \in {-1} \cup 1..MaxServerInterval}
    \cup {DeviceAuthAnswer("ok", Absent, "uc-1", "uri-1", -1),
          DeviceAuthAnswer("ok", "dc-1", Absent, "uri-1", -1),
          DeviceAuthAnswer("empty", Absent, Absent, Absent, -1),
          DeviceAuthAnswer("http_error", Absent, Absent, Absent, -1),
          DeviceAuthAnswer("network", Absent, Absent, Absent, -1)}

\* _aws_start_device_auth: the parsed answer, None after any exception
AwsStartDeviceAuth(ans) ==
  IF ans.kind = "ok" THEN Data(FALSE)
  ELSE IF ans.kind = "empty" THEN Data(TRUE)
  ELSE NoData

\* auth_data.get('interval', 5)
IntervalOf(ans) == IF ans.interval = -1 THEN DefaultPollInterval ELSE ans.interval

\* what the profile listing may answer: a list whose first profile has an
\* arn, has none, or is not an object; an empty list; no profiles key; a body
\* that is not JSON; an HTTP error; no answer at all
ProfileAnswers ==
  {"arn", "no_arn", "first_not_object", "empty_list", "no_profiles",
   "not_json", "http_error", "network"}

\* the warning _fetch_kiro_profile_arn prints for an answer it reads without
\* an exception
ProfileWarning(p) ==
  IF p = "no_arn" THEN "no_arn"
  ELSE IF p \in {"empty_list", "no_profiles"} THEN "no_profiles"
  ELSE IF p = "http_error" THEN "http_error"
  ELSE "none"

\* _fetch_kiro_profile_arn with `except Exception` left out
FetchKiroProfileArnUncaught(p) ==
  IF p = "arn"
    THEN [arn |-> "arn:profile/1", warning |-> "none", info |-> FALSE, raised |-> FALSE]
  ELSE IF p \in {"no_arn", "empty_list", "no_profiles", "http_error"}
    THEN [arn |-> Absent, warning |-> ProfileWarning(p), info |-> TRUE, raised |-> FALSE]
  ELSE [arn |-> Absent, warning |-> "none", info |-> FALSE, raised |-> TRUE]

\* _fetch_kiro_profile_arn: the arn or None, the warning printed, whether the
\* closing remark is printed, whether an exception leaves the function
FetchKiroProfileArn(p) ==
  IF p = "arn"
    THEN [arn |-> "arn:profile/1", warning |-> "none", info |-> FALSE, raised |-> FALSE]
  ELSE IF p \in {"no_arn", "empty_list", "no_profiles", "http_error"}
    THEN [arn |-> Absent, warning |-> ProfileWarning(p), info |-> TRUE, raised |-> FALSE]
  ELSE [arn |-> Absent, warning |-> "exception", info |-> TRUE, raised |-> FALSE]

\* KiroAwsAuthFile with the class defaults in place of the instance's region
\* and start URL
KiroAwsAuthFileClassDefaults(token_data, client_id, client_secret, arn, utcnow, cfg) ==
  [EmptyDoc EXCEPT
     !.type = "kiro",
     !.auth_method = "IdC",
     !.access_token = token_data.accessToken,
     !.refresh_token = IF token_data.hasRefreshToken THEN token_data.refreshToken ELSE 0,
     !.expires_at = IsoformatZ(utcnow +
                      (IF token_data.expiresIn = -1 THEN DefaultExpiresIn
                       ELSE token_data.expiresIn)),
     !.client_id = client_id,
     !.client_secret = client_secret,
     !.start_url = KIRO_AWS_START_URL,
     !.region = KIRO_AWS_REGION,
     !.profileArn = arn]

\* _save_kiro_aws_token: the document built from the token response, with
\* arn what _fetch_kiro_profile_arn returned (None: Absent)
KiroAwsAuthFile(token_data, client_id, client_secret, arn, utcnow, cfg) ==
  [EmptyDoc EXCEPT
     !.type = "kiro",
     !.auth_method = "IdC",
     !.access_token = token_data.accessToken,
     !.refresh_token = IF token_data.hasRefreshToken THEN token_data.refreshToken ELSE 0,
     !.expires_at = IsoformatZ(utcnow +
                      (IF token_data.expiresIn = -1 THEN DefaultExpiresIn
                       ELSE token_data.expiresIn)),
     !.client_id = client_id,
     !.client_secret = client_secret,
     !.start_url = cfg.start_url,
     !.region = cfg.region,
     !.profileArn = arn]

\* an AuthServer constructed with the configuration cfg, no flow started
Constructed(cfg) == [NoPoll EXCEPT !.cfg = cfg]

DeviceInit ==
  /\ store = <<>>
  /\ store0 = store
  /\ ssoCache = CacheAbsent
  /\ BatchAtRest
  /\ lookup = NoLookup /\ verdict = NoVerdict
  /\ listener = NoListener /\ manual = NoManual /\ calls = NoCalls
  /\ poll = Constructed(AwsConfig(KIRO_AWS_START_URL, KIRO_AWS_REGION))

\* what the device-code flow leaves alone besides the store
pollFrame == <<ssoCache, clock, ticked, grants, faults, runs, pc, files, pending, cur, f,
               refreshed_count, ret, hist, prevFound, store0, verbose, lookup, verdict,
               listener, manual, calls>>

\* RegistrationStep that goes on whatever the registration returned
RegistrationStepUnchecked(reg_data, ans) == "authorize"

\* start_kiro_aws_auth after step 1: `if not reg_data: return`, then
\* reg_data['clientId'] and reg_data['clientSecret'], a KeyError if missing
RegistrationStep(reg_data, ans) ==
  IF Falsy(reg_data) THEN "registration_failed"
  ELSE IF ans.clientId = Absent \/ ans.clientSecret = Absent THEN "raised"
  ELSE "authorize"

\* start_kiro_aws_auth after step 2: `if not auth_data: return`, then
\* auth_data['deviceCode'], ['userCode'] and ['verificationUriComplete']
AuthorizationStep(auth_data, ans) ==
  IF Falsy(auth_data) THEN "authorization_failed"
  ELSE IF Absent \in {ans.deviceCode, ans.userCode, ans.verificationUriComplete}
    THEN "raised"
  ELSE "authorized"

\* start_kiro_aws_auth is invoked
StartKiroAwsAuth ==
  /\ poll.pc = "idle"
  /\ poll' = [poll EXCEPT !.pc = "register"]
  /\ UNCHANGED <<store, pollFrame>>

\* start_kiro_aws_auth, step 1: _aws_register_client_device and what the
\* caller makes of its result.  A result without clientId or clientSecret
\* raises KeyError out of start_kiro_aws_auth
RegisterClient(ans) ==
  /\ poll.pc = "register"
  /\ ans \in RegistrationAnswers
  /\ LET reg_data == AwsRegisterClientDevice(ans)
         sent == [poll EXCEPT
                    !.registrations = @ + 1,
                    !.regRequest = AwsRequest(OidcUrl(poll.cfg.region, "/client/register"),
                                              Absent, Absent, poll.cfg.start_url,
                                              Scopes(poll.cfg.start_url))]
         step == RegistrationStep(reg_data, ans)
     IN  IF step = "authorize"
           THEN poll' = [sent EXCEPT !.pc = "authorize",
                                     !.reg = Registration(ans.clientId, ans.clientSecret)]
           ELSE poll' = [sent EXCEPT !.pc = "done", !.outcome = step]
  /\ UNCHANGED <<store, pollFrame>>

\* start_kiro_aws_auth, step 2: _aws_start_device_auth with the registered
\* client and what the caller makes of its result.  A result without
\* deviceCode, userCode or verificationUriComplete raises KeyError
StartDeviceAuth(ans) ==
  /\ poll.pc = "authorize"
  /\ ans \in DeviceAuthAnswers
  /\ LET auth_data == AwsStartDeviceAuth(ans)
         sent == [poll EXCEPT
                    !.authorizations = @ + 1,
                    !.authRequest = AwsRequest(OidcUrl(poll.cfg.region, "/device_authorization"),
                                               poll.reg.client_id, poll.reg.client_secret,
                                               poll.cfg.start_url, {})]
         step == AuthorizationStep(auth_data, ans)
     IN  IF step = "authorized"
           THEN poll' = [sent EXCEPT !.pc = "authorized",
                                     !.device_code = ans.deviceCode,
                                     !.offered = IntervalOf(ans)]
           ELSE poll' = [sent EXCEPT !.pc = "done", !.outcome = step]
  /\ UNCHANGED <<store, pollFrame>>

\* start_kiro_aws_auth, step 3: _aws_poll_token is called with the interval
\* of the device authorization
StartPolling ==
  /\ poll.pc = "authorized"
  /\ poll' = [poll EXCEPT !.pc = "loop", !.interval = poll.offered,
                           !.interval0 = poll.offered]
  /\ UNCHANGED <<store, pollFrame>>

\* _aws_poll_token: a new iteration begins with time.sleep(interval)
PollSleep ==
  /\ poll.pc = "loop"
  /\ LoopContinues(poll.attempt)
  /\ poll' = [poll EXCEPT !.pc = "request", !.attempt = @ + 1,
                           !.lastWait = poll.interval]
  /\ UNCHANGED <<store, pollFrame>>

\* _aws_poll_token: the loop is exhausted, '认证超时' is printed
PollTimeout ==
  /\ poll.pc = "loop"
  /\ ~LoopContinues(poll.attempt)
  /\ poll' = [poll EXCEPT !.pc = "done", !.outcome = "timeout"]
  /\ UNCHANGED <<store, pollFrame>>

\* _aws_poll_token: the token request of the iteration and what the answer a
\* leads to; p is the answer of the profile listing, io whether the write to
\* the store succeeds or open() raises.  Only HTTPError is caught: a KeyError
\* on accessToken, a URLError and an OSError leave the function
PollRequest(a, p, io) ==
  /\ poll.pc = "request"
  /\ a \in TokenAnswers(poll.requests + 1)
  /\ LET sent == [poll EXCEPT
                    !.requests = @ + 1,
                    !.tokenRequest = AwsRequest(OidcUrl(poll.cfg.region, "/token"),
                                                poll.reg.client_id, poll.reg.client_secret,
                                                Absent, {})]
         kind == ErrorKind(a.body)
         profile == FetchKiroProfileArn(p)
         listed == [sent EXCEPT !.last = "granted", !.listings = @ + 1,
                                !.warning = profile.warning, !.info = profile.info]
     IN  CASE a.kind = "ok" /\ a.token.accessToken # 0 /\ profile.raised ->
                /\ io
                /\ poll' = [listed EXCEPT !.pc = "done", !.outcome = "raised"]
                /\ UNCHANGED store
           [] a.kind = "ok" /\ a.token.accessToken # 0 /\ ~profile.raised /\ io ->
                /\ store' = SaveAuthFile(store, "kiro", BuilderId,
                               KiroAwsAuthFile(a.token, poll.reg.client_id,
                                               poll.reg.client_secret, profile.arn,
                                               clock, poll.cfg))
                /\ poll' = [listed EXCEPT !.pc = "done",
                                          !.persisted = @ + 1, !.outcome = "success"]
           [] a.kind = "ok" /\ a.token.accessToken # 0 /\ ~profile.raised /\ ~io ->
                /\ poll' = [listed EXCEPT !.pc = "done",
                                          !.saveRaised = TRUE, !.outcome = "raised"]
                /\ UNCHANGED store
           [] a.kind = "ok" /\ a.token.accessToken = 0 ->
                /\ p = "arn" /\ io
                /\ poll' = [sent EXCEPT !.pc = "done", !.last = "no_token",
                                        !.outcome = "raised"]
                /\ UNCHANGED store
           [] a.kind = "network" ->
                /\ p = "arn" /\ io
                /\ poll' = [sent EXCEPT !.pc = "done", !.last = "network",
                                        !.outcome = "raised"]
                /\ UNCHANGED store
           [] a.kind = "http_error" /\ kind = "authorization_pending" ->
                /\ p = "arn" /\ io
                /\ poll' = [sent EXCEPT !.pc = "loop", !.last = kind,
                                        !.pendings = @ + 1,
                                        !.interval = NextInterval(poll.interval, kind)]
                /\ UNCHANGED store
           [] a.kind = "http_error" /\ kind = "slow_down" ->
                /\ p = "arn" /\ io
                /\ poll' = [sent EXCEPT !.pc = "loop", !.last = kind,
                                        !.slowdowns = @ + 1,
                                        !.interval = NextInterval(poll.interval, kind)]
                /\ UNCHANGED store
           [] a.kind = "http_error" /\ kind = "other" ->
                /\ p = "arn" /\ io
                /\ poll' = [sent EXCEPT !.pc = "done", !.last = kind,
                                        !.outcome = "failed"]
                /\ UNCHANGED store
  /\ UNCHANGED pollFrame

DeviceNext ==
  \/ StartKiroAwsAuth
  \/ \E ans \in RegistrationAnswers : RegisterClient(ans)
  \/ \E ans \in DeviceAuthAnswers : StartDeviceAuth(ans)
  \/ StartPolling
  \/ PollSleep
  \/ PollTimeout
  \/ \E a \in TokenAnswers(poll.requests + 1), p \in ProfileAnswers,
        io \in BOOLEAN : PollRequest(a, p, io)

DeviceSpec == DeviceInit /\ [][DeviceNext]_vars

\* ---------------------------------- the redirect flow and its callback listener

\* secrets.token_urlsafe(16): the values the random state may take
AuthStates == {"st-1", "st-2"}

\* a GET request to the listener: its path and, from parse_qs of its query,
\* the first code (0: none), the first error (Absent: none) and the first
\* state (Absent: none)
HttpRequest(path, code, error, state) ==
  [path |-> path, code |-> code, error |-> error, state |-> state]
HttpRequests ==
  {HttpRequest("/callback", 7, Absent, "st-1"),
   HttpRequest("/callback", 7, Absent, "st-2"),
   HttpRequest("/callback", 7, Absent, Absent),
   HttpRequest("/callback", 0, "access_denied", "st-1"),
   HttpRequest("/callback", 7, "access_denied", Absent),
   HttpRequest("/callback", 0, Absent, Absent),
   HttpRequest("/health", 0, Absent, Absent),
   HttpRequest("/favicon.ico", 0, Absent, Absent)}

\* what the token endpoint may answer to the code exchange: a token with or
\* without refresh_token and expires_in, an object without access_token, an
\* error (urlopen raises)
ExchangeAnswers ==
  {Response(41, TRUE, 42, 1800), Response(41, FALSE, 0, -1),
   Response(0, FALSE, 0, -1), NoneResponse}

\* what the user-info endpoint may answer: an object with or without email,
\* JSON that is no object, an error (urlopen raises)
UserInfo(kind, email) == [kind |-> kind, email |-> email]
UserInfoAnswers ==
  {UserInfo("object", UserEmail), UserInfo("object", <<>>),
   UserInfo("not_object", <<>>), UserInfo("error", <<>>)}

\* CallbackHandler._handle_callback: the result slot it leaves (unchanged
\* when the query has neither code nor error), the calls it made; the
\* completion signal is set on every path
HandleCallback(req, provider, result, x, u) ==
  IF req.error # Absent
    THEN [result |-> [NoResult EXCEPT !.kind = "error", !.error = req.error],
          exchanges |-> 0, userinfos |-> 0, set |-> TRUE, last |-> "error"]
  ELSE IF req.code # 0
    THEN IF x.none
           THEN [result |-> [NoResult EXCEPT !.kind = "error", !.error = "exchange"],
                 exchanges |-> 1, userinfos |-> 0, set |-> TRUE, last |-> "code"]
         ELSE IF x.accessToken = 0
           THEN [result |-> [NoResult EXCEPT !.kind = "error", !.error = "'access_token'"],
                 exchanges |-> 1, userinfos |-> 0, set |-> TRUE, last |-> "code"]
         ELSE IF u.kind = "error"
           THEN [result |-> [NoResult EXCEPT !.kind = "error", !.error = "user_info"],
                 exchanges |-> 1, userinfos |-> 1, set |-> TRUE, last |-> "code"]
         ELSE [result |-> [NoResult EXCEPT !.kind = "success", !.provider = provider,
                                           !.token_data = x, !.user_info = u],
               exchanges |-> 1, userinfos |-> 1, set |-> TRUE, last |-> "code"]
  ELSE [result |-> result, exchanges |-> 0, userinfos |-> 0, set |-> TRUE,
        last |-> "empty"]

\* CallbackHandler.do_GET: the status sent and what the request did
DoGet(req, provider, result, x, u) ==
  IF req.path = "/callback"
    THEN [status |-> 200, cb |-> HandleCallback(req, provider, result, x, u)]
  ELSE [status |-> IF req.path = "/health" THEN 200 ELSE 404,
        cb |-> [result |-> result, exchanges |-> 0, userinfos |-> 0, set |-> FALSE,
                last |-> IF req.path = "/health" THEN "health" ELSE "other"]]

\* _save_google_token: the document and the identifier it is saved under
GoogleAuthFile(result, utcnow) ==
  [EmptyDoc EXCEPT
     !.type = result.provider,
     !.auth_method = "Social",
     !.provider = "Google",
     !.access_token = result.token_data.accessToken,
     !.refresh_token = IF result.token_data.hasRefreshToken
                         THEN result.token_data.refreshToken ELSE 0,
     !.expires_at = IsoformatZ(utcnow +
                      (IF result.token_data.expiresIn = -1 THEN DefaultExpiresIn
                       ELSE result.token_data.expiresIn)),
     !.email = result.user_info.email]
GoogleIdentifier(user_info) ==
  IF user_info.email = <<>> THEN <<"unknown">> ELSE user_info.email

RedirectInit ==
  /\ store = <<>>
  /\ store0 = store
  /\ ssoCache = CacheAbsent
  /\ BatchAtRest
  /\ AuxAtRest

\* what the redirect flow leaves alone besides the store
listenerFrame == <<ssoCache, clock, ticked, grants, faults, runs, pc, files, pending, cur,
                   f, refreshed_count, ret, hist, prevFound, store0, verbose, lookup,
                   verdict, poll, manual, calls>>

\* start_antigravity_auth / start_kiro_google_auth up to the loop of
\* _run_callback_server: the random state is drawn and put in the
\* authorization URL, the socket is bound (or TCPServer raises OSError), the
\* completion signal cleared
StartRedirectFlow(provider, bound, state) ==
  /\ listener.pc = "idle"
  /\ listener' = IF bound
                   THEN [listener EXCEPT !.pc = "waiting", !.provider = provider,
                                         !.state = state,
                                         !.socket = "open", !.event = FALSE]
                   ELSE [listener EXCEPT !.pc = "done", !.provider = provider,
                                         !.state = state,
                                         !.outcome = "raised"]
  /\ UNCHANGED <<store, listenerFrame>>

\* `while not self._auth_event.is_set(): httpd.handle_request()`: one
\* iteration in which a request arrives and is served
HandleRequest(req, x, u) ==
  /\ listener.pc = "waiting" /\ ~listener.event
  /\ listener.served < MaxRequests
  /\ LET got == DoGet(req, listener.provider, listener.result, x, u)
     IN  /\ got.cb.exchanges = 0 => x = NoneResponse
         /\ got.cb.userinfos = 0 => u = UserInfo("error", <<>>)
         /\ listener' = [listener EXCEPT
                           !.served = @ + 1,
                           !.status = got.status,
                           !.last = got.cb.last,
                           !.reqState = req.state,
                           !.result = got.cb.result,
                           !.resultAt = IF got.cb.last \in {"error", "code"}
                                          THEN listener.invocation ELSE @,
                           !.exchanges = @ + got.cb.exchanges,
                           !.userinfos = @ + got.cb.userinfos,
                           !.event = got.cb.set]
  /\ UNCHANGED <<store, listenerFrame>>

\* one iteration in which no request arrives for httpd.timeout seconds:
\* handle_request() calls handle_timeout(), which does nothing, and returns
HandleTimeout ==
  /\ listener.pc = "waiting" /\ ~listener.event
  /\ listener.timeouts < MaxTimeouts
  /\ listener' = [listener EXCEPT !.timeouts = @ + 1, !.last = "timeout",
                                  !.waited = @ + ListenerTimeout]
  /\ UNCHANGED <<store, listenerFrame>>

\* _run_callback_server after the loop: the result slot is reported, a
\* success is saved (io: whether the write succeeds), the `with` block closes
\* the socket however it is left
FinishWait(io) ==
  /\ listener.pc = "waiting" /\ listener.event
  /\ LET r == listener.result
         closed == [listener EXCEPT !.pc = "done", !.socket = "closed"]
     IN  CASE r.kind = "none" ->
                /\ io
                /\ listener' = [closed EXCEPT !.outcome = "silent"]
                /\ UNCHANGED store
           [] r.kind = "error" ->
                /\ io
                /\ listener' = [closed EXCEPT !.reported = "error", !.outcome = "failed"]
                /\ UNCHANGED store
           [] r.kind = "success" /\ r.user_info.kind = "not_object" ->
                /\ io
                /\ listener' = [closed EXCEPT !.outcome = "raised"]
                /\ UNCHANGED store
           [] r.kind = "success" /\ r.user_info.kind = "object" /\ ~io ->
                /\ listener' = [closed EXCEPT !.outcome = "raised"]
                /\ UNCHANGED store
           [] r.kind = "success" /\ r.user_info.kind = "object" /\ io ->
                /\ store' = SaveAuthFile(store, r.provider,
                                         GoogleIdentifier(r.user_info),
                                         GoogleAuthFile(r, clock))
                /\ listener' = [closed EXCEPT !.persisted = @ + 1,
                                              !.key = GoogleIdentifier(r.user_info),
                                              !.reported = "success",
                                              !.outcome = "success"]
  /\ UNCHANGED listenerFrame

RedirectNext ==
  \/ \E provider \in {"antigravity", "kiro"}, bound \in BOOLEAN, state \in AuthStates :
        StartRedirectFlow(provider, bound, state)
  \/ \E req \in HttpRequests, x \in ExchangeAnswers, u \in UserInfoAnswers :
        HandleRequest(req, x, u)
  \/ HandleTimeout
  \/ \E io \in BOOLEAN : FinishWait(io)

RedirectSpec == RedirectInit /\ [][RedirectNext]_vars

\* start_antigravity_auth / start_kiro_google_auth called again on the same
\* instance after an invocation has returned or raised: a new state, a new
\* socket, the completion signal cleared (line 637); self._auth_result is
\* assigned in __init__ and in the callback handler only, so it is what the
\* earlier invocation left.  What the invocation did (exchanges, persisted,
\* reported, outcome) is counted from here
StartAgain(provider, bound, state) ==
  /\ listener.pc = "done"
  /\ listener.invocation + 1 < MaxInvocations
  /\ LET again == [NoListener EXCEPT !.provider = provider, !.state = state,
                                     !.result = listener.result,
                                     !.resultAt = listener.resultAt,
                                     !.invocation = listener.invocation + 1,
                                     !.served = listener.served,
                                     !.timeouts = listener.timeouts]
     IN  listener' = IF bound
                       THEN [again EXCEPT !.pc = "waiting", !.socket = "open"]
                       ELSE [again EXCEPT !.pc = "done", !.outcome = "raised"]
  /\ UNCHANGED <<store, listenerFrame>>

ReuseNext ==
  \/ RedirectNext
  \/ \E provider \in {"antigravity", "kiro"}, bound \in BOOLEAN, state \in AuthStates :
        StartAgain(provider, bound, state)

ReuseSpec == RedirectInit /\ [][ReuseNext]_vars

\* ------------------------------------------------------- the PKCE manual flow

\* what the operator may give to input(): end of input, an empty line, or a
\* URL whose query (parse_qs, first values) has these parameters
Pasted(kind, login_option, issuer_url, idc_region, code, error) ==
  [kind |-> kind, login_option |-> login_option, issuer_url |-> issuer_url,
   idc_region |-> idc_region, code |-> code, error |-> error]
PastedUrls ==
  {Pasted("eof", Absent, Absent, Absent, 0, Absent),
   Pasted("empty", Absent, Absent, Absent, 0, Absent),
   Pasted("url", "awsidc", EnterpriseStartUrl, EnterpriseRegion, 7, Absent),
   Pasted("url", "awsidc", EnterpriseStartUrl, Absent, 0, Absent),
   Pasted("url", "awsidc", Absent, EnterpriseRegion, 0, Absent),
   Pasted("url", "awsidc", Absent, Absent, 0, Absent),
   Pasted("url", "builderid", Absent, Absent, 7, Absent),
   Pasted("url", Absent, Absent, Absent, 7, Absent),
   Pasted("url", Absent, Absent, Absent, 7, "access_denied"),
   Pasted("url", Absent, Absent, Absent, 0, "access_denied"),
   Pasted("url", Absent, Absent, Absent, 0, Absent)}

\* DispatchConfig with the pasted issuer URL and region left aside
DispatchConfigIgnored(cfg, pasted) == cfg

\* start_kiro_manual_auth before it calls start_kiro_aws_auth: an issuer URL
\* or a region found in the pasted URL replaces the instance's
DispatchConfig(cfg, pasted) ==
  [start_url |-> IF Truthy(pasted.issuer_url) THEN pasted.issuer_url ELSE cfg.start_url,
   region |-> IF Truthy(pasted.idc_region) THEN pasted.idc_region ELSE cfg.region]

\* start_kiro_manual_auth once the URL is pasted: where it goes next
ManualStep(pasted) ==
  IF pasted.kind = "eof" THEN "eof"
  ELSE IF pasted.kind = "empty" THEN "empty_url"
  ELSE IF pasted.login_option = "awsidc" THEN "dispatched"
  ELSE IF pasted.error # Absent THEN "auth_failed"
  ELSE IF pasted.code = 0 THEN "no_code"
  ELSE "exchange"

\* what the id_token of the exchanged token may be
IdTokens ==
  {"absent", "not_text", "one_part", "undecodable", "not_json", "not_object",
   "no_email", "email_null", "email_not_text", "email"}

\* start_kiro_manual_auth: the email it ends up with, "unknown" unless the
\* payload is an object with an email key; the value of that key is taken as
\* it is (text: a JSON string, else null or a number)
ResolveEmail(idt) ==
  IF idt = "email" THEN [text |-> TRUE, value |-> UserEmail]
  ELSE IF idt \in {"email_null", "email_not_text"} THEN [text |-> FALSE, value |-> <<>>]
  ELSE [text |-> TRUE, value |-> <<"unknown">>]

\* _save_kiro_token: the document built from the exchanged token
KiroSocialAuthFile(token_data, email, utcnow) ==
  [EmptyDoc EXCEPT
     !.type = "kiro",
     !.auth_method = "Social",
     !.access_token = token_data.accessToken,
     !.refresh_token = IF token_data.hasRefreshToken THEN token_data.refreshToken ELSE 0,
     !.expires_at = IsoformatZ(utcnow +
                      (IF token_data.expiresIn = -1 THEN DefaultExpiresIn
                       ELSE token_data.expiresIn)),
     !.email = email]

ManualInit ==
  /\ store = <<>>
  /\ store0 = store
  /\ ssoCache = CacheAbsent
  /\ BatchAtRest
  /\ lookup = NoLookup /\ verdict = NoVerdict
  /\ listener = NoListener /\ manual = NoManual /\ calls = NoCalls
  /\ \E cfg \in AwsConfigs : poll = Constructed(cfg)

\* what the manual flow leaves alone besides the store and the device flow
manualFrame == <<ssoCache, clock, ticked, grants, faults, runs, pc, files, pending, cur,
                 f, refreshed_count, ret, hist, prevFound, store0, verbose, lookup,
                 verdict, listener, calls>>

\* start_kiro_manual_auth up to the code exchange: the URL is pasted and
\* looked at; on login_option=awsidc start_kiro_aws_auth is called on the
\* same instance
PasteUrl(pasted) ==
  /\ manual.pc = "idle" /\ poll.pc = "idle"
  /\ LET step == ManualStep(pasted)
         read == [manual EXCEPT !.pasted = pasted, !.cfg0 = poll.cfg]
     IN  /\ manual' = IF step = "exchange"
                        THEN [read EXCEPT !.pc = "exchange"]
                        ELSE [read EXCEPT !.pc = "done", !.outcome = step]
         /\ poll' = IF step = "dispatched"
                      THEN [poll EXCEPT !.cfg = DispatchConfig(poll.cfg, pasted),
                                        !.pc = "register"]
                      ELSE poll
  /\ UNCHANGED <<store, manualFrame>>

\* start_kiro_manual_auth from the code exchange on: _exchange_kiro_code, the
\* email read from the id_token, _save_kiro_token; every exception is caught
\* and reported (a failed exchange, a token without access_token, an
\* identifier save_auth_file cannot call replace on, a write that fails)
ExchangeKiroCode(x, idt, io) ==
  /\ manual.pc = "exchange"
  /\ x \in ExchangeAnswers /\ idt \in IdTokens
  /\ LET email == ResolveEmail(idt)
         asked == [manual EXCEPT !.pc = "done", !.exchanges = @ + 1]
     IN  CASE x.none ->
                /\ idt = "absent" /\ io
                /\ manual' = [asked EXCEPT !.outcome = "error"]
                /\ UNCHANGED store
           [] ~x.none /\ x.accessToken = 0 ->
                /\ io
                /\ manual' = [asked EXCEPT !.id_token = idt, !.outcome = "error"]
                /\ UNCHANGED store
           [] ~x.none /\ x.accessToken # 0 /\ ~email.text ->
                /\ io
                /\ manual' = [asked EXCEPT !.token = x.accessToken, !.id_token = idt,
                                           !.outcome = "error"]
                /\ UNCHANGED store
           [] ~x.none /\ x.accessToken # 0 /\ email.text /\ ~io ->
                /\ manual' = [asked EXCEPT !.token = x.accessToken, !.id_token = idt,
                                           !.saveRaised = TRUE, !.outcome = "error"]
                /\ UNCHANGED store
           [] ~x.none /\ x.accessToken # 0 /\ email.text /\ io ->
                /\ store' = SaveAuthFile(store, "kiro", email.value,
                                         KiroSocialAuthFile(x, email.value, clock))
                /\ manual' = [asked EXCEPT !.token = x.accessToken, !.id_token = idt,
                                           !.persisted = @ + 1,
                                           !.identifier = email.value,
                                           !.outcome = "success"]
  /\ UNCHANGED <<poll, manualFrame>>

\* the answers of the token endpoint the manual flow's device-code run is
\* followed through: pending, a refusal, a grant
ManualTokenAnswers(n) ==
  {a \in TokenAnswers(n) :
     \/ a.kind = "ok" /\ a.token.accessToken # 0
     \/ a.kind = "http_error" /\ a.body \in {{"authorization_pending"}, {"access_denied"}}}

ManualNext ==
  \/ \E pasted \in PastedUrls : PasteUrl(pasted)
  \/ \E x \in ExchangeAnswers, idt \in IdTokens, io \in BOOLEAN : ExchangeKiroCode(x, idt, io)
  \/ \E ans \in RegistrationAnswers : RegisterClient(ans)
  \/ \E ans \in DeviceAuthAnswers : StartDeviceAuth(ans)
  \/ StartPolling
  \/ PollSleep
  \/ PollTimeout
  \/ \E a \in ManualTokenAnswers(poll.requests + 1), p \in {"arn", "network"},
        io \in BOOLEAN : PollRequest(a, p, io)

ManualSpec == ManualInit /\ [][ManualNext]_vars

\* ------------------------------------- device-code flows one after the other

\* the identities whose device-code flow has persisted a credential so far
Completed ==
  poll.completed \cup (IF poll.outcome = "success" THEN {poll.cfg} ELSE {})

\* main.py handle_auth run again: a new AuthServer with the start URL and
\* region of its arguments, over the same ~/.cli-proxy-api
NewAuthServer(cfg) ==
  /\ poll.pc = "done"
  /\ poll.flows + 1 < MaxFlows
  /\ poll' = [Constructed(cfg) EXCEPT !.flows = poll.flows + 1,
                                      !.completed = Completed]
  /\ UNCHANGED <<store, pollFrame>>

FlowsInit == ManualInit

FlowsNext ==
  \/ \E cfg \in AwsConfigs : NewAuthServer(cfg)
  \/ StartKiroAwsAuth
  \/ \E ans \in {a \in RegistrationAnswers : a.clientId = "cid-1" \/ a.kind = "http_error"} :
        RegisterClient(ans)
  \/ \E ans \in {a \in DeviceAuthAnswers : a.interval = -1} : StartDeviceAuth(ans)
  \/ StartPolling
  \/ PollSleep
  \/ PollTimeout
  \/ \E a \in ManualTokenAnswers(poll.requests + 1), io \in BOOLEAN :
        PollRequest(a, "arn", io)

FlowsSpec == FlowsInit /\ [][FlowsNext]_vars

\* ------------------------------------------- the credential store on its own

\* the providers, identifiers and documents the store is called with
StoreProviders == {"kiro", "antigravity"}
StoreIdentifiers ==
  {<<"a", ".", "b", "@", "c">>, <<"a", "@", "b", ".", "c">>, <<"a", "/", "b">>, BuilderId}
StoreDocuments ==
  {JObj(<<>>),
   JObj(<<Member(<<"n">>, JNum(0))>>),
   JObj(<<Member(<<"a">>, JStr(<<"x", "\"", "é", "\\">>)), Member(<<"n">>, JNum(-1)),
          Member(<<"e">>, JStr(<<>>))>>),
   JObj(<<Member(<<"l">>, JArr(<<JNull, JBool(TRUE), JNum(MaxNumber)>>)),
          Member(<<"o">>, JObj(<<Member(<<"é">>, JArr(<<>>)), Member(<<"f">>, JBool(FALSE))>>))>>)}

\* open(filepath, 'w'): the auth directory holds no directory, so a file name
\* with a path separator names a file in a directory that does not exist
OpenRaises(fn) == \E i \in 1..Len(fn) : fn[i] = "/"

StoreInit ==
  /\ store = <<>>
  /\ store0 = store
  /\ ssoCache = CacheAbsent
  /\ BatchAtRest
  /\ AuxAtRest

\* what the store's functions leave alone besides the store
storeFrame == <<ssoCache, clock, ticked, grants, faults, runs, pc, files, pending, cur, f,
                refreshed_count, ret, hist, prevFound, store0, verbose, lookup, verdict,
                poll, listener, manual>>

\* one call of save_auth_file(provider, identifier, doc): the file holds the
\* text json.dump writes, unless open() raises
SaveCall(provider, identifier, doc) ==
  /\ calls.saves < MaxSaves
  /\ LET fn == FileName(provider, identifier)
         called == [calls EXCEPT !.op = "save", !.provider = provider,
                                 !.identifier = identifier, !.doc = doc,
                                 !.found = FALSE, !.result = JNull, !.saves = @ + 1]
     IN  IF OpenRaises(fn)
           THEN /\ calls' = [called EXCEPT !.raised = TRUE]
                /\ UNCHANGED store
           ELSE /\ store' = SaveAuthFile(store, provider, identifier, JsonDump(doc))
                /\ calls' = [called EXCEPT
                               !.raised = FALSE,
                               !.saved = [pr \in DOMAIN calls.saved \cup {<<provider, identifier>>}
                                            |-> IF pr = <<provider, identifier>> THEN doc
                                                ELSE calls.saved[pr]]]
  /\ UNCHANGED storeFrame

\* one call of load_auth_file(provider, identifier): None when the file does
\* not exist, else what json.load reads from it
LoadCall(provider, identifier) ==
  /\ calls.op # "load"
  /\ LET r == LoadAuthFile(store, provider, identifier)
     IN  calls' = [calls EXCEPT !.op = "load", !.provider = provider,
                                !.identifier = identifier, !.raised = FALSE,
                                !.found = r.found,
                                !.result = IF r.found THEN JsonLoad(r.doc) ELSE JNull]
  /\ UNCHANGED <<store, storeFrame>>

StoreNext ==
  \/ \E provider \in StoreProviders, identifier \in StoreIdentifiers,
        doc \in StoreDocuments : SaveCall(provider, identifier, doc)
  \/ \E provider \in StoreProviders, identifier \in StoreIdentifiers :
        LoadCall(provider, identifier)

StoreSpec == StoreInit /\ [][StoreNext]_vars

\* ------------------------------------------------ a save that does not finish

\* json.load on the text of a file: the texts a save leaves are prefixes of
\* what json.dump writes, and a prefix is a document only when its brackets
\* and quotes are closed at its last token; anything else raises
\* JSONDecodeError (an empty file included)
RECURSIVE Complete(_, _, _, _)
Complete(text, i, depth, inStr) ==
  IF i > Len(text) THEN FALSE
  ELSE IF inStr
    THEN IF text[i] \in {"\\", "\\u"} THEN Complete(text, i + 2, depth, TRUE)
         ELSE IF text[i] = "\""
           THEN IF depth = 0 THEN i = Len(text) ELSE Complete(text, i + 1, depth, FALSE)
         ELSE Complete(text, i + 1, depth, TRUE)
  ELSE IF text[i] = "\"" THEN Complete(text, i + 1, depth, TRUE)
  ELSE IF text[i] \in {"{", "["} THEN Complete(text, i + 1, depth + 1, FALSE)
  ELSE IF text[i] \in {"}", "]"}
    THEN IF depth = 1 THEN i = Len(text) ELSE Complete(text, i + 1, depth - 1, FALSE)
  ELSE IF depth = 0 /\ text[i] # "ws" THEN i = Len(text)
  ELSE Complete(text, i + 1, depth, FALSE)

\* load_auth_file's json.load(f): the value read, or the exception
JsonLoadFile(text) ==
  IF Complete(text, 1, 0, FALSE) THEN [raised |-> FALSE, v |-> JsonLoad(text)]
  ELSE [raised |-> TRUE, v |-> JNull]

\* the identifiers of the saves followed step by step
CrashIdentifiers == {BuilderId, <<"a", "@", "b", ".", "c">>}

CrashInit == StoreInit

\* save_auth_file, line 26: open(filepath, 'w') creates the file or empties
\* the one that is there
SaveOpen(provider, identifier, doc) ==
  /\ calls.op \in {"none", "save", "load"} /\ ~calls.stopped
  /\ calls.saves < MaxSaves
  /\ store' = SaveAuthFile(store, provider, identifier, <<>>)
  /\ calls' = [calls EXCEPT !.op = "writing", !.provider = provider,
                            !.identifier = identifier, !.doc = doc, !.raised = FALSE,
                            !.found = FALSE, !.result = JNull, !.saves = @ + 1,
                            !.written = 0]
  /\ UNCHANGED storeFrame

\* save_auth_file, line 27: json.dump writes the text piece by piece; the
\* next piece reaches the file
SaveWrite ==
  /\ calls.op = "writing"
  /\ calls.written < Len(JsonDump(calls.doc))
  /\ store' = SaveAuthFile(store, calls.provider, calls.identifier,
                           SubSeq(JsonDump(calls.doc), 1, calls.written + 1))
  /\ calls' = [calls EXCEPT !.written = @ + 1]
  /\ UNCHANGED storeFrame

\* save_auth_file, end of the with block: the file is closed, the save returns
SaveClose ==
  /\ calls.op = "writing"
  /\ calls.written = Len(JsonDump(calls.doc))
  /\ calls' = [calls EXCEPT
                 !.op = "save",
                 !.saved = [pr \in DOMAIN calls.saved \cup {<<calls.provider, calls.identifier>>}
                              |-> IF pr = <<calls.provider, calls.identifier>> THEN calls.doc
                                  ELSE calls.saved[pr]]]
  /\ UNCHANGED <<store, storeFrame>>

\* the process ends while the save is under way: the file keeps what was
\* written to it
ProcessStops ==
  /\ calls.op = "writing"
  /\ calls' = [calls EXCEPT !.op = "stopped", !.stopped = TRUE]
  /\ UNCHANGED <<store, storeFrame>>

\* load_auth_file(provider, identifier) called afterwards
LoadFile(provider, identifier) ==
  /\ calls.op \in {"save", "stopped"}
  /\ LET r == LoadAuthFile(store, provider, identifier)
         read == IF r.found THEN JsonLoadFile(r.doc) ELSE [raised |-> FALSE, v |-> JNull]
     IN  calls' = [calls EXCEPT !.op = "load", !.provider = provider,
                                !.identifier = identifier, !.raised = read.raised,
                                !.found = r.found, !.result = read.v]
  /\ UNCHANGED <<store, storeFrame>>

CrashNext ==
  \/ \E identifier \in CrashIdentifiers, doc \in StoreDocuments :
        SaveOpen("kiro", identifier, doc)
  \/ SaveWrite
  \/ SaveClose
  \/ ProcessStops
  \/ \E identifier \in CrashIdentifiers : LoadFile("kiro", identifier)

CrashSpec == CrashInit /\ [][CrashNext]_vars

\* --------------------------------------------------------------------- claims

\* the files of the current run for which an event of kind ev is recorded
FilesWith(ev) == {n \in DOMAIN hist : EventsOf(n, ev) # {}}

\* the document lacks client_id or client_secret
LacksRegistration(d) == d.client_id \in {Absent, ""} \/ d.client_secret \in {Absent, ""}

\* the document is refreshed with the identity-center protocol
IsIdc(d) == d.auth_method \in {Absent, "IdC"}

\* C1: every refresh write-back goes to the file the credential was listed
\* from, the set of file names of the store never changes, and no two
\* credentials of one batch write the same file.
C1_WriteBackSameFile ==
  /\ \A n \in DOMAIN hist : \A i \in EventsOf(n, "refresh_save") : hist[n][i].key = n
  /\ DOMAIN store = DOMAIN store0
  /\ \A n, m \in DOMAIN hist :
       n # m => \A i \in EventsOf(n, "refresh_save"), j \in EventsOf(m, "refresh_save") :
                  hist[n][i].key # hist[m][j].key

C3_IdcRequestHasAllThree ==
  \A n \in DOMAIN hist : \A i \in EventsOf(n, "request") :
    IsIdc(hist[n][i].doc)
      => /\ ~LacksRegistration(hist[n][i].doc)
         /\ hist[n][i].doc.region \notin {Absent, ""}

\* C4: a refresh attempt that fails (no usable response: network error,
\* HTTP error status or unparsable body; an empty object; an object without
\* accessToken) leaves the stored document of the credential as it was.
C4_FailedRefreshLeavesDocument ==
  [][\A r \in Responses(grants + 1) :
       (Refresh(r, TRUE) /\ (r.none \/ r.accessToken = 0))
         => (cur \in DOMAIN store' /\ store'[cur] = store[cur])]_vars

\* C4 witness: a request was sent and the response had no accessToken.
C4_Witness ==
  \E n \in FilesWith("request") :
    /\ \E i \in EventsOf(n, "refresh_raise") : hist[n][i].key = NoName
    /\ n \in DOMAIN store /\ store[n] = store0[n]

\* C5: every run ends returning a count, with every listed credential
\* evaluated exactly once.
C5_BatchAlwaysReturnsCount ==
  (pc = "idle" /\ runs > 0)
    => /\ ret.kind = "count"
       /\ \A n \in DOMAIN hist :
            Cardinality(EventsOf(n, "due") \cup EventsOf(n, "not_due")) = 1

\* the listed documents are those of the store with one due, one fresh and
\* one non-refreshable credential
ThreeCredentialBatch == files = ListAuthFiles(StoreDueFreshNone, "kiro")

\* C6: the count returned is the number of credentials whose refreshed
\* document was written in the run; over one due, one fresh and one
\* non-refreshable credential with an endpoint that grants, it is 1.
C6_CountIsPersisted ==
  ret.kind = "count"
    => /\ ret.count = Cardinality(FilesWith("refresh_save"))
       /\ (ThreeCredentialBatch /\ FilesWith("refresh_raise") = {}
             /\ \A n \in FilesWith("request") : EventsOf(n, "refresh_false") = {})
            => (ret.count = 1 /\ FilesWith("refresh_save") = {DeviceFile})

\* C6 witness: the run over the three credentials has returned 1.
C6_Witness ==
  ret.kind = "count" /\ ThreeCredentialBatch /\ ret.count = 1
    /\ FilesWith("due") = {SocialFile, DeviceFile} /\ FilesWith("not_due") = {EntFile}

\* C7: no request is sent for a credential reported not-due, and its stored
\* access_token, refresh_token and expires_at stay as they were listed.
C7_NotDueUntouched ==
  \A n \in FilesWith("not_due") :
    /\ EventsOf(n, "request") = {}
    /\ store[n].access_token = files[n].access_token
    /\ store[n].refresh_token = files[n].refresh_token
    /\ store[n].expires_at = files[n].expires_at

\* C8: a refresh request for an identity-center credential stored without
\* client registration is preceded, in the same run, by the write of the
\* document carrying the client_id and client_secret the request uses.
C8_BackfillPersistedBeforeRequest ==
  \A n \in DOMAIN hist : \A i \in EventsOf(n, "request") :
    (IsIdc(files[n]) /\ LacksRegistration(files[n]))
      => \E j \in EventsOf(n, "backfill_save") :
           /\ j < i
           /\ ~LacksRegistration(hist[n][j].doc)
           /\ hist[n][j].doc.client_id = hist[n][i].doc.client_id
           /\ hist[n][j].doc.client_secret = hist[n][i].doc.client_secret
           /\ hist[n][j].key \in DOMAIN store

\* C8 witness: a credential stored without client registration was
\* backfilled and a request was sent for it.
C8_Witness ==
  \E n \in FilesWith("request") :
    IsIdc(files[n]) /\ LacksRegistration(files[n]) /\ EventsOf(n, "backfill_save") # {}

\* C9: a credential whose backfill was persisted in the previous run is
\* listed with client_id and client_secret, and no SSO-cache lookup is made
\* for it.
C9_BackfillNotRepeated ==
  \A n \in prevFound \cap DOMAIN hist :
    ~LacksRegistration(files[n]) /\ EventsOf(n, "lookup") = {}

\* the document of file n has gone through _load_and_complement_credentials
Complemented(n) == n \in DOMAIN hist /\ (n \notin pending \/ (n = cur /\ pc # "loop"))

\* C10: the SSO cache is read and a backfill is written only for
\* identity-center documents lacking client_id or client_secret; a Social
\* document and a complete identity-center document come back unchanged.
C10_BackfillOnlyIdcLacking ==
  /\ \A n \in FilesWith("lookup") \cup FilesWith("backfill_save")
                \cup FilesWith("backfill_raise") :
       IsIdc(files[n]) /\ LacksRegistration(files[n])
  /\ (pc \in {"complemented", "due"}
        /\ (files[cur].auth_method = "Social" \/ ~LacksRegistration(files[cur])))
       => f = files[cur]

\* C10 witness: with a registration in the SSO cache, a run has taken a
\* Social document and a complete identity-center document through the
\* backfill step.
C10_Witness ==
  /\ LoadKiroDeviceRegistration(ssoCache) # {NoRegistration}
  /\ \E n, m \in DOMAIN hist :
       /\ Complemented(n) /\ files[n].auth_method = "Social"
       /\ Complemented(m) /\ files[m].auth_method = "IdC"
       /\ ~LacksRegistration(files[m])

\* the loop is through with file n, an identity-center document listed
\* without client registration, and the SSO cache yields no registration
BackfillMiss(n) ==
  /\ n \in DOMAIN hist /\ n \notin pending
  /\ IsIdc(files[n]) /\ LacksRegistration(files[n])
  /\ LoadKiroDeviceRegistration(ssoCache) = {NoRegistration}

\* the lines about file n, other than the staleness verdict of a verbose run
SaidAbout(n) ==
  {i \in 1..Len(hist[n]) :
     hist[n][i].ev \in {"msg_complemented", "msg_refresh_error", "msg_refreshed",
                        "msg_exception"}}

\* C11: after a backfill miss the credential's file holds the document as
\* listed, no request was sent for it, it is not counted as refreshed, the
\* run has not raised, and when the credential was due a line about it being
\* skipped was printed.
C11_BackfillMissReportedSkipped ==
  \A n \in DOMAIN hist :
    BackfillMiss(n)
      => /\ n \in DOMAIN store /\ Tagged(store, n) = files[n]
         /\ EventsOf(n, "request") = {}
         /\ EventsOf(n, "refresh_save") = {}
         /\ refreshed_count <= Cardinality(DOMAIN hist \ {n})
         /\ ret.kind # "raised"
         /\ EventsOf(n, "due") # {} => SaidAbout(n) # {}

\* the cache file n is readable and carries clientId and clientSecret
HasBoth(n) ==
  /\ n \in DOMAIN ssoCache.files
  /\ ssoCache.files[n].json
  /\ ssoCache.files[n].clientId \notin {Absent, ""}
  /\ ssoCache.files[n].clientSecret \notin {Absent, ""}

\* the registration file kiro-auth-token.json points to
PointerTarget == <<ssoCache.files[<<"kiro-auth-token", ".", "json">>].clientIdHash, ".", "json">>

\* kiro-auth-token.json carries a clientIdHash whose registration file
\* exists with clientId and clientSecret
PointerLeadsToPair ==
  /\ ssoCache.exists
  /\ <<"kiro-auth-token", ".", "json">> \in DOMAIN ssoCache.files
  /\ ssoCache.files[<<"kiro-auth-token", ".", "json">>].json
  /\ ssoCache.files[<<"kiro-auth-token", ".", "json">>].clientIdHash \notin {Absent, ""}
  /\ HasBoth(PointerTarget)

\* the other files of a listable cache the scan can take a pair from
Qualifying ==
  {n \in DOMAIN ssoCache.files :
     /\ ssoCache.exists /\ ssoCache.listable
     /\ n # <<"kiro-auth-token", ".", "json">>
     /\ n[Len(n)] = "json"
     /\ HasBoth(n)}

\* the pair of cache file n
PairOf(n) ==
  [client_id |-> ssoCache.files[n].clientId, client_secret |-> ssoCache.files[n].clientSecret]

\* C12: the SSO-cache lookup never raises; when kiro-auth-token.json leads to
\* a registration file with clientId and clientSecret it returns exactly that
\* pair, whatever else the cache holds; otherwise it returns the pair of one
\* other file carrying both, or (None, None) when no file qualifies.
C12_PointerFirstThenScan ==
  lookup.done
    => /\ ~lookup.raised
       /\ PointerLeadsToPair => lookup.reg = PairOf(PointerTarget)
       /\ ~PointerLeadsToPair
            => IF Qualifying = {}
               THEN lookup.reg = [client_id |-> Absent, client_secret |-> Absent]
               ELSE \E n \in Qualifying : lookup.reg = PairOf(n)

\* C12 witness: the pointer led to h1.json while h2.json holds another
\* complete pair, and the lookup returned the pair of h1.json.
C12_Witness ==
  /\ lookup.done /\ PointerLeadsToPair
  /\ PointerTarget = <<"h1", ".", "json">>
  /\ HasBoth(<<"h2", ".", "json">>)
  /\ PairOf(<<"h2", ".", "json">>) # PairOf(<<"h1", ".", "json">>)
  /\ lookup.reg = PairOf(<<"h1", ".", "json">>)

\* seconds from the instant of the call to the instant expires_at denotes
Remaining == f.expires_at.t - clock

\* _should_refresh was called on a document whose expires_at is a timestamp
CalledOnTimestamp == verdict.done /\ f.expires_at.kind = "iso"

\* C13: an expires_at strictly in the past is reported due with a
\* non-negative count of seconds overdue, one more than 300 s in the future
\* is reported not due.
C13_PastDueFarFutureNotDue ==
  CalledOnTimestamp
    => /\ Remaining < 0 => (verdict.due /\ verdict.secs >= 0)
       /\ Remaining > 300 => ~verdict.due

\* C14 as stated: an expires_at whose remaining time lies in (0, 300]
\* seconds, exactly 300 s included, is reported due.
C14_BufferClosedAt300 ==
  (CalledOnTimestamp /\ 0 < Remaining /\ Remaining <= 300) => verdict.due

\* C14: an expires_at whose remaining time lies strictly between 0 and 300
\* seconds is reported due.
C14_BufferBelow300 ==
  (CalledOnTimestamp /\ 0 < Remaining /\ Remaining < 300) => verdict.due

\* C14 witness: a timestamp 299 s ahead was reported as expiring within the
\* buffer.
C14_Witness ==
  /\ CalledOnTimestamp /\ Remaining = 299
  /\ verdict.due /\ verdict.reason = "expiring" /\ verdict.secs = 299

\* C15: a listed document without expires_at is evaluated not due (the
\* evaluation returns), and the run sends no refresh request for it.
C15_NoExpiryNotDue ==
  \A n \in DOMAIN hist :
    (files[n].expires_at = [kind |-> "absent", t |-> 0, suffix |-> ""]
       /\ n \notin pending)
      => /\ EventsOf(n, "not_due") # {}
         /\ EventsOf(n, "due") = {}
         /\ EventsOf(n, "request") = {}

\* C15 witness: the loop is through with a document that has a
\* refresh_token and no expires_at.
C15_Witness ==
  \E n \in DOMAIN hist :
    /\ files[n].expires_at = [kind |-> "absent", t |-> 0, suffix |-> ""]
    /\ files[n].refresh_token # 0
    /\ n \notin pending
    /\ EventsOf(n, "not_due") # {}

\* C16: an expires_at that is present but is no timestamp (a malformed or
\* empty string, a number) is reported due.
C16_UnreadableExpiryDue ==
  (verdict.done /\ f.expires_at.kind \in {"malformed", "empty", "number"})
    => verdict.due

\* C17: the verdict is the one the same instant gets when it is written with
\* no suffix, with 'Z' or with '+00:00'.
C17_SuffixIndependent ==
  CalledOnTimestamp
    => \A z \in {"", "Z", "+00:00"} :
         ShouldRefresh([f EXCEPT !.expires_at.suffix = z], clock).due = verdict.due

\* C18: the step of _refresh_token on a document without refresh_token
\* sends no request, leaves the store as it is, raises nothing and reports
\* not refreshed: the count stays and the loop goes on.
C18_NoRefreshTokenNoOp ==
  [][(pc = "due" /\ f.refresh_token = 0)
       => /\ store' = store
          /\ {i \in 1..Len(hist'[cur]) :
                hist'[cur][i].ev \in {"request", "refresh_raise", "refresh_save",
                                      "msg_exception", "msg_refreshed"}} = {}
          /\ hist'[cur][Len(hist'[cur])].ev = "refresh_false"
          /\ refreshed_count' = refreshed_count
          /\ pc' = "loop"
          /\ ret' = ret]_vars

\* C18 witness: the loop is through with an expired identity-center document
\* that has client_id and client_secret but no refresh_token.
C18_Witness ==
  \E n \in DOMAIN hist :
    /\ files[n].refresh_token = 0
    /\ files[n].auth_method = "IdC" /\ ~LacksRegistration(files[n])
    /\ EventsOf(n, "due") # {}
    /\ EventsOf(n, "refresh_false") # {}
    /\ n \notin pending

\* C19: the poll loop gives up only after 60 requests were answered
\* authorization_pending or slow_down, so an endpoint that answers
\* authorization_pending N <= 59 times and then grants is asked N + 1 times:
\* the grant ends the loop in success, with the credential written once and
\* one request per answer, at most 60.
C19_PendingThenSuccess ==
  /\ poll.outcome = "timeout" => poll.pendings + poll.slowdowns = 60
  /\ poll.requests <= 60
  /\ (poll.last = "granted" /\ ~poll.saveRaised)
       => /\ poll.outcome = "success"
          /\ poll.persisted = 1
          /\ poll.requests = poll.pendings + poll.slowdowns + 1
          /\ <<"kiro", "-", "aws-builder-id", ".", "json">> \in DOMAIN store
  /\ poll.last # "granted" => (poll.persisted = 0 /\ store = <<>>)

\* C19 witness: 59 answers of authorization_pending, then the grant at the
\* 60th request.
C19_Witness ==
  /\ poll.outcome = "success" /\ poll.persisted = 1
  /\ poll.pendings = 59 /\ poll.slowdowns = 0 /\ poll.requests = 60

\* C20: a slow_down answer raises the interval by exactly 5 s, an
\* authorization_pending answer leaves it as it is, every wait lasts the
\* interval as it stands then (the first interval plus 5 s per slow_down so
\* far), and the interval never decreases during the loop.
C20_IntervalDiscipline ==
  [][/\ (poll'.requests = poll.requests + 1 /\ poll'.last = "slow_down")
          => poll'.interval = poll.interval + 5
     /\ (poll'.requests = poll.requests + 1 /\ poll'.last = "authorization_pending")
          => poll'.interval = poll.interval
     /\ poll'.attempt = poll.attempt + 1 => poll'.lastWait = poll.interval
     /\ poll'.pc = "request" => poll'.lastWait = poll'.interval0 + 5 * poll'.slowdowns
     /\ poll.pc # "idle" => poll'.interval >= poll.interval]_vars

\* C20 witness: after two slow_down answers and one authorization_pending
\* answer the loop has waited the default interval plus 10 s.
C20_Witness ==
  /\ poll.pc = "request" /\ poll.interval0 = 5
  /\ poll.slowdowns = 2 /\ poll.pendings = 1
  /\ poll.lastWait = 15 /\ poll.interval = 15

\* C21: every run of the poll loop ends after at most 60 token requests in
\* exactly one of three outcomes: success (the credential persisted once),
\* an explicit provider error (nothing persisted) or the cap of 60 attempts
\* (nothing persisted); the loop ends in no other way
C21_ThreeOutcomesOnly ==
  (poll.pc = "done" /\ poll.attempt > 0) =>
    /\ poll.requests <= 60
    /\ poll.outcome \in {"success", "failed", "timeout"}
    /\ poll.outcome = "success" => poll.persisted = 1 /\ poll.last = "granted"
    /\ poll.outcome = "failed" => poll.persisted = 0 /\ poll.last = "other"
    /\ poll.outcome = "timeout" => poll.persisted = 0 /\ poll.requests = 60

\* C22: the device-code flow runs its three steps in order and without a
\* retry: one registration request per invocation; device authorization is
\* requested only after a registration that returned a client id and secret,
\* and with exactly those; the poll loop starts only after a device
\* authorization that returned a device code; a failed registration or
\* device authorization ends the invocation with no later step and nothing
\* persisted
C22_ThreeStepsInOrder ==
  /\ poll.registrations <= 1 /\ poll.authorizations <= 1
  /\ poll.pc \notin {"idle", "register"} => poll.registrations = 1
  /\ poll.authorizations = 1
       => /\ poll.registrations = 1
          /\ poll.reg.client_id # "<absent>" /\ poll.reg.client_secret # "<absent>"
          /\ poll.authRequest.clientId = poll.reg.client_id
          /\ poll.authRequest.clientSecret = poll.reg.client_secret
  /\ (poll.attempt > 0 \/ poll.requests > 0 \/ poll.pc \in {"authorized", "loop", "request"})
       => /\ poll.authorizations = 1
          /\ poll.device_code # "<absent>"
          /\ poll.tokenRequest.clientId \in {"<absent>", poll.reg.client_id}
  /\ poll.outcome = "registration_failed"
       => /\ poll.pc = "done" /\ poll.authorizations = 0
          /\ poll.attempt = 0 /\ poll.requests = 0 /\ store = <<>>
  /\ poll.outcome = "authorization_failed"
       => /\ poll.pc = "done" /\ poll.attempt = 0 /\ poll.requests = 0 /\ store = <<>>
  /\ (poll.pc = "done" /\ poll.device_code = "<absent>")
       => poll.attempt = 0 /\ poll.requests = 0 /\ store = <<>>

\* C22 witness: a flow that registered the second client, was authorized
\* with it and persisted the credential of that client
C22_Witness ==
  /\ poll.outcome = "success" /\ poll.registrations = 1 /\ poll.authorizations = 1
  /\ poll.authRequest.clientId = "cid-2"
  /\ \E n \in DOMAIN store : store[n].client_id = "cid-2"

\* the document of the device-code flow in the store
BuilderIdFile == <<"kiro", "-", "aws-builder-id", ".", "json">>

\* C23: resolving the profile identifier is not fatal: after a token grant,
\* whatever the profile listing answers (HTTP error, network error, empty or
\* malformed list), a warning is reported and the credential is persisted
\* all the same, without a profile identifier and with all its other fields
C23_ProfileFailureNotFatal ==
  (poll.last = "granted" /\ poll.listings = 1 /\ ~poll.saveRaised)
    => /\ poll.outcome = "success" /\ poll.persisted = 1
       /\ BuilderIdFile \in DOMAIN store
       /\ LET d == store[BuilderIdFile]
          IN  /\ d.type = "kiro" /\ d.auth_method = "IdC"
              /\ d.access_token = 20 + poll.requests
              /\ d.refresh_token = 20 + poll.requests
              /\ d.expires_at = [kind |-> "iso", t |-> clock + 3600, suffix |-> "Z"]
              /\ d.client_id = poll.reg.client_id
              /\ d.client_secret = poll.reg.client_secret
              /\ d.start_url = poll.cfg.start_url /\ d.region = poll.cfg.region
              /\ (d.profileArn = "<absent>") = (poll.warning # "none")
              /\ poll.warning # "none" => poll.info

\* C23 witness: the profile listing failed with an exception after a grant
\* that followed one authorization_pending answer, and the credential is in
\* the store without a profile identifier
C23_Witness ==
  /\ poll.outcome = "success" /\ poll.pendings = 1 /\ poll.requests = 2
  /\ poll.warning = "exception"
  /\ BuilderIdFile \in DOMAIN store
  /\ store[BuilderIdFile].profileArn = "<absent>"
  /\ store[BuilderIdFile].access_token = 22

\* C24: a lapse of the listener's 300 s timeout is a failure outcome: when a
\* waiting period ends with no request, the hosting loop stops, the socket
\* is closed and the flow reports a timeout (so that every invocation ends
\* and releases its socket on every exit path)
C24_TimeoutIsFailure ==
  [][listener'.timeouts = listener.timeouts + 1
       => /\ listener'.pc = "done"
          /\ listener'.socket = "closed"
          /\ listener'.reported = "timeout"]_vars

\* C25: the wait of the redirect flow ends only on a terminal event (code
\* received, provider error, timeout): a GET /health (answered 200), a
\* request to any other path and a /callback request with neither code nor
\* error never set the completion signal and never end the wait
C25_WaitEndsOnlyOnTerminalEvent ==
  /\ listener.last = "health" => listener.status = 200
  /\ listener.last \in {"health", "other", "empty"}
       => ~listener.event /\ listener.pc = "waiting"
  /\ (listener.event \/ listener.socket = "closed")
       => listener.last \in {"code", "error", "timeout"}

\* C26: the redirect flow persists a credential if and only if the callback
\* carried a code and no error and both the token exchange and the user-info
\* call succeeded, and then exactly one document, keyed by the identifier
\* resolved from user-info; on a provider error, a failed exchange or a
\* timeout the error is surfaced and nothing is persisted
C26_PersistedIffCodeExchangedAndResolved ==
  /\ listener.persisted <= 1 /\ Cardinality(DOMAIN store) = listener.persisted
  /\ listener.persisted = 1
       => /\ listener.result.kind = "success" /\ listener.last = "code"
          /\ listener.exchanges = 1 /\ listener.userinfos = 1
          /\ listener.key = (IF listener.result.user_info.email = <<>>
                               THEN <<"unknown">> ELSE listener.result.user_info.email)
          /\ DOMAIN store = {<<listener.provider, "-">> \o SafeId(listener.key)
                                \o <<".", "json">>}
  /\ (listener.pc = "done" /\ listener.result.kind = "success"
        /\ listener.outcome # "raised") => listener.persisted = 1
  /\ (listener.pc = "done" /\ listener.result.kind = "error")
       => listener.reported = "error" /\ listener.persisted = 0
  /\ listener.last = "timeout"
       => listener.pc = "done" /\ listener.reported = "timeout" /\ listener.persisted = 0

\* the Social documents in the store
SocialDocuments == {n \in DOMAIN store : store[n].auth_method = "Social"}

\* the region and the start URL a re-dispatched flow has to target: those of
\* the pasted URL, the instance's own for one the URL does not embed
TargetRegion ==
  IF manual.pasted.idc_region # "<absent>" THEN manual.pasted.idc_region
  ELSE manual.cfg0.region
TargetStartUrl ==
  IF manual.pasted.issuer_url # "<absent>" THEN manual.pasted.issuer_url
  ELSE manual.cfg0.start_url

\* C27: when the pasted URL says login_option=awsidc the manual flow makes no
\* PKCE code exchange and persists no Social credential; it runs the
\* device-code flow with the issuer URL and region of the pasted URL:
\* registration, device authorization and polling go to that region and
\* carry that start URL
C27_AwsIdcRedispatch ==
  (manual.pc = "done" /\ manual.pasted.login_option = "awsidc")
    => /\ manual.outcome = "dispatched"
       /\ manual.exchanges = 0 /\ manual.persisted = 0 /\ SocialDocuments = {}
       /\ poll.pc # "idle"
       /\ poll.registrations = 1
            => /\ poll.regRequest.url = <<"oidc.", TargetRegion, ".amazonaws.com",
                                           "/client/register">>
               /\ poll.regRequest.startUrl = TargetStartUrl
       /\ poll.authorizations = 1
            => /\ poll.authRequest.url = <<"oidc.", TargetRegion, ".amazonaws.com",
                                            "/device_authorization">>
               /\ poll.authRequest.startUrl = TargetStartUrl
       /\ poll.requests > 0
            => poll.tokenRequest.url = <<"oidc.", TargetRegion, ".amazonaws.com", "/token">>
       /\ \A n \in DOMAIN store :
            store[n].region = TargetRegion /\ store[n].start_url = TargetStartUrl

\* C27 witness: an instance built for the personal Builder ID is given a URL
\* with the enterprise issuer and region, and the device-code flow it runs
\* ends with the credential of that region and start URL in the store
C27_Witness ==
  /\ manual.outcome = "dispatched"
  /\ manual.cfg0.region = "us-east-1"
  /\ manual.pasted.idc_region = "eu-west-1"
  /\ manual.pasted.issuer_url = "https://corp.awsapps.com/start"
  /\ poll.outcome = "success" /\ poll.pendings = 1
  /\ poll.tokenRequest.url = <<"oidc.", "eu-west-1", ".amazonaws.com", "/token">>
  /\ \E n \in DOMAIN store : store[n].region = "eu-west-1"

\* C28: resolving the identifier never fails the manual flow: once the code
\* exchange has returned a token the flow persists a credential whatever the
\* id_token is, under the decoded email when there is one and under the
\* placeholder identifier otherwise
C28_IdentifierNeverFailsFlow ==
  (manual.exchanges = 1 /\ manual.token # 0 /\ ~manual.saveRaised)
    => /\ manual.outcome = "success" /\ manual.persisted = 1
       /\ manual.identifier = (IF manual.id_token = "email"
                                 THEN <<"user", "@", "example", ".", "com">>
                                 ELSE <<"unknown">>)
       /\ DOMAIN store = {<<"kiro", "-">> \o SafeId(manual.identifier) \o <<".", "json">>}

\* C29: for every provider, identifier and JSON document, a save followed by
\* a load of the same provider and identifier returns a value deep-equal to
\* the document saved
C29_SaveThenLoadReturnsDocument ==
  [][(calls.op = "save" /\ calls'.op = "load"
        /\ calls'.provider = calls.provider /\ calls'.identifier = calls.identifier)
       => calls'.found /\ calls'.result = calls.doc]_vars

\* the file of a pair and the document read from it
KeyOf(pr) == <<pr[1], "-">> \o SafeId(pr[2]) \o <<".", "json">>
LiveDocument(pr) == JsonLoad(store[KeyOf(pr)])

\* C30: at any time the store holds exactly one live document per (provider,
\* identifier) pair ever saved: a save to an existing pair replaces its
\* document in full and adds no second document, so each pair's document is
\* the last one saved to it
C30_OneLiveDocumentPerPair ==
  /\ Cardinality(DOMAIN store) = Cardinality(DOMAIN calls.saved)
  /\ \A pr \in DOMAIN calls.saved :
       KeyOf(pr) \in DOMAIN store /\ LiveDocument(pr) = calls.saved[pr]

\* C31: load_auth_file on a (provider, identifier) pair to which no document
\* was ever saved returns None, does not raise and leaves the store unchanged
C31_LoadOfUnsavedPairIsAbsent ==
  [][(calls'.op = "load" /\ calls.op # "load"
        /\ <<calls'.provider, calls'.identifier>> \notin DOMAIN calls.saved)
       => /\ ~calls'.found /\ calls'.result = JNull /\ ~calls'.raised
          /\ store' = store]_vars

\* C32: when the process stops at any point of a save over an existing key, a
\* later load of that key returns the complete previous document or the
\* complete new one, and does not find a truncated or empty file
C32_StoppedSaveLeavesWholeDocument ==
  [][(calls.op = "stopped" /\ calls'.op = "load"
        /\ calls'.provider = calls.provider /\ calls'.identifier = calls.identifier
        /\ <<calls.provider, calls.identifier>> \in DOMAIN calls.saved)
       => /\ ~calls'.raised /\ calls'.found
          /\ calls'.result \in {calls.saved[<<calls.provider, calls.identifier>>], calls.doc}]_vars

\* C33: no document in the store carries the tagging fields _filename and
\* _filepath that list_auth_files adds, whatever refresh_all_tokens has
\* written back or persisted after a backfill
C33_NoTaggingFieldsStored ==
  \A n \in DOMAIN store : store[n]._filename = NoName /\ store[n]._filepath = NoName

\* C34: store keys of distinct identifiers are independent: a save to
\* (provider, id1) leaves what load_auth_file(provider, id2) returns unchanged
\* for every identifier id2 other than id1
C34_DistinctIdentifiersIndependent ==
  [][(calls'.op = "save" /\ calls'.saves = calls.saves + 1)
       => \A id2 \in StoreIdentifiers \ {calls'.identifier} :
            LoadAuthFile(store', calls'.provider, id2)
              = LoadAuthFile(store, calls'.provider, id2)]_vars

\* C35: the redirect flow exchanges the code of a callback only when the
\* callback's state parameter equals the random state of this invocation's
\* authorization URL; a callback whose state is missing or different is not
\* exchanged and does not lead to a persisted credential
C35_CodeExchangedOnlyForOwnState ==
  [][/\ listener'.exchanges > listener.exchanges => listener'.reqState = listener.state
     /\ listener'.persisted > listener.persisted => listener.reqState = listener.state]_vars

\* C36: across consecutive redirect-flow invocations on one AuthServer
\* instance, the outcome an invocation acts on was recorded during that
\* invocation: an invocation that persists a token or reports an error does
\* so for a result its own listener recorded, and an invocation whose
\* listener exchanged no code persists nothing
C36_OutcomeBelongsToInvocation ==
  (listener.pc = "done" /\ listener.reported # "none")
    => /\ listener.resultAt = listener.invocation
       /\ listener.persisted > 0 => listener.exchanges > 0

\* C37: a successful refresh never makes a credential non-refreshable: the
\* document _refresh_token stores has a non-empty refresh_token, the one the
\* provider's response issued (the token of the grant under way) or else the
\* one the document had before
C37_RefreshKeepsRefreshToken ==
  [][pc = "due" =>
       \A i \in 1..Len(hist'[cur]) :
         (i > Len(hist[cur]) /\ hist'[cur][i].ev = "refresh_save")
           => /\ hist'[cur][i].doc.refresh_token # 0
              /\ store'[hist'[cur][i].key].refresh_token # 0
              /\ hist'[cur][i].doc.refresh_token \in {f.refresh_token, 10 + grants'}]_vars

\* C38: every credential the device-code flow persists satisfies the IdC
\* refresh precondition without backfill: auth_method IdC, the client_id and
\* client_secret this invocation's registration returned, and the region
\* whose OIDC endpoints served the registration, the device authorization
\* and the token grant, which is the region a later refresh addresses
C38_DeviceCredentialRefreshable ==
  poll.persisted > 0 =>
    /\ <<"kiro", "-", "aws-builder-id", ".", "json">> \in DOMAIN store
    /\ LET d == store[<<"kiro", "-", "aws-builder-id", ".", "json">>]
       IN  /\ d.auth_method = "IdC"
           /\ d.client_id = poll.reg.client_id /\ d.client_id \in {"cid-1", "cid-2"}
           /\ d.client_secret = poll.reg.client_secret
           /\ d.client_secret \in {"sec-1", "sec-2"}
           /\ d.region \in {"us-east-1", "eu-west-1"}
           /\ poll.regRequest.url = <<"oidc.", d.region, ".amazonaws.com", "/client/register">>
           /\ poll.authRequest.url
                = <<"oidc.", d.region, ".amazonaws.com", "/device_authorization">>
           /\ poll.authRequest.clientId = d.client_id
           /\ poll.tokenRequest.url = <<"oidc.", d.region, ".amazonaws.com", "/token">>
           /\ poll.tokenRequest.clientId = d.client_id
           /\ d.refresh_token # 0 =>
                /\ RefreshRequest(d).sent
                /\ RefreshRequest(d).url = poll.tokenRequest.url
                /\ RefreshRequest(d).clientId = poll.reg.client_id

\* C38 witness: a device-code flow of the enterprise identity center has
\* persisted its credential, registered as cid-1 in eu-west-1
C38_Witness ==
  /\ poll.persisted = 1 /\ poll.outcome = "success"
  /\ poll.reg.client_id = "cid-1"
  /\ poll.tokenRequest.url = <<"oidc.", "eu-west-1", ".amazonaws.com", "/token">>
  /\ store[<<"kiro", "-", "aws-builder-id", ".", "json">>].region = "eu-west-1"
  /\ store[<<"kiro", "-", "aws-builder-id", ".", "json">>].refresh_token # 0

\* C39: a successful device-code flow for one identity-center identity
\* never overwrites the stored credential of another: once flows for two
\* different start URLs or regions have completed, the store holds a
\* document for each of them
C39_OneDocumentPerIdentity ==
  \A c \in Completed :
    \E n \in DOMAIN store :
      store[n].start_url = c.start_url /\ store[n].region = c.region

\* C40: a successful refresh changes only the token and expiry fields: the
\* document _refresh_token stores has the type, provider, auth_method,
\* client_id, client_secret, region, start_url, email and profile identifier
\* of the document it was given
C40_RefreshChangesOnlyTokenFields ==
  [][pc = "due" =>
       \A i \in 1..Len(hist'[cur]) :
         (i > Len(hist[cur]) /\ hist'[cur][i].ev = "refresh_save")
           => LET d == store'[hist'[cur][i].key]
              IN  /\ d.type = f.type /\ d.provider = f.provider
                  /\ d.auth_method = f.auth_method
                  /\ d.client_id = f.client_id /\ d.client_secret = f.client_secret
                  /\ d.region = f.region /\ d.start_url = f.start_url
                  /\ d.email = f.email /\ d.profileArn = f.profileArn]_vars

\* C40 witness: the refresh of an enterprise credential of eu-west-1 has
\* been written back with a new access token
C40_Witness ==
  \E n \in DOMAIN hist :
    \E i \in 1..Len(hist[n]) :
      /\ hist[n][i].ev = "refresh_save"
      /\ hist[n][i].key \in DOMAIN store
      /\ store[hist[n][i].key].region = "eu-west-1"
      /\ store[hist[n][i].key].email # NoName
      /\ store[hist[n][i].key].client_id # Absent
      /\ store[hist[n][i].key].access_token > 10
      /\ store[hist[n][i].key].last_refresh.kind = "iso"
====
